---------------------------- MODULE Spec2Model ----------------------------
(***************************************************************************)
(* Vani-Vision: the comprehension meter (understanding_meter.py), the      *)
(* teaching-mode selection of the Socratic prompt (socratic_prompt.py)     *)
(* and the globals of the LLM engine that the meter's evaluator call       *)
(* writes (llm_engine.py).                                                 *)
(*                                                                         *)
(* Text is a sequence of one-character strings.  A regular expression is   *)
(* a set of alternatives; an alternative is a sequence of tokens           *)
(* [a |-> atom, q |-> quantifier]:                                         *)
(*   q = "1"  the atom once        q = "?"  the atom at most once          *)
(*   q = "*"  any number of times  q = "+"  at least once                  *)
(*   q = "@"  a zero-width assertion: "\\b", "^" or "$"                    *)
(* An atom is a literal character, "\\s" (whitespace) or "\\d" (digit).    *)
(***************************************************************************)
EXTENDS Integers, Sequences, FiniteSets, TLC

\* ------------------------------------------------------------------------
\* config.py
\* ------------------------------------------------------------------------

METER_INITIAL_SCORE == 30

METER_STEP_CORRECT == 15

METER_STEP_PARTIAL == 7

METER_STEP_INCORRECT == -5

HINT_THRESHOLD == 2

\* ------------------------------------------------------------------------
\* Characters, str.lower() and re.search()
\* ------------------------------------------------------------------------

UpperChars ==
    <<"A", "B", "C", "D", "E", "F", "G", "H", "I", "J", "K", "L", "M",
      "N", "O", "P", "Q", "R", "S", "T", "U", "V", "W", "X", "Y", "Z">>

LowerChars ==
    <<"a", "b", "c", "d", "e", "f", "g", "h", "i", "j", "k", "l", "m",
      "n", "o", "p", "q", "r", "s", "t", "u", "v", "w", "x", "y", "z">>

Digits == {"0", "1", "2", "3", "4", "5", "6", "7", "8", "9"}

\* \s, of the ASCII characters (without the vertical tab).
Whitespace == {" ", "\t", "\n", "\r", "\f"}

\* \w, of the ASCII characters and of the superscript two (a str pattern
\* matches every alphanumeric character of Unicode; \d matches only the
\* decimal digits, which the superscript two is not).
WordChars ==
    {UpperChars[i] : i \in 1..26} \cup {LowerChars[i] : i \in 1..26}
        \cup Digits \cup {"_", "²"}

\* str.lower() on one character.
lower_char(c) ==
    IF \E i \in 1..26 : UpperChars[i] = c
    THEN LowerChars[CHOOSE i \in 1..26 : UpperChars[i] = c]
    ELSE c

\* str.lower()
lower(text) == [i \in 1..Len(text) |-> lower_char(text[i])]

\* A literal word as a sequence of tokens.
Lit(w) == [i \in 1..Len(w) |-> [a |-> w[i], q |-> "1"]]

\* One token.
Tok(a, q) == <<[a |-> a, q |-> q]>>

\* Whether character c is matched by atom a.
AtomMatches(a, c) ==
    IF a = "\\s" THEN c \in Whitespace
    ELSE IF a = "\\d" THEN c \in Digits
    ELSE c = a

\* Whether the character at position i of text is a word character (\w);
\* positions outside the text are not.
IsWordAt(text, i) == i >= 1 /\ i <= Len(text) /\ text[i] \in WordChars

\* The zero-width assertions at position i (before text[i]).
AssertionHolds(a, text, i) ==
    IF a = "\\b" THEN IsWordAt(text, i - 1) # IsWordAt(text, i)
    ELSE IF a = "^" THEN i = 1
    ELSE \* "$": the end of the text, or just before a final newline
        i = Len(text) + 1 \/ (i = Len(text) /\ text[i] = "\n")

\* The end of the longest run of characters matched by atom a from i.
RunEnd(a, text, i) ==
    CHOOSE j \in i..(Len(text) + 1) :
        /\ \A k \in i..(j - 1) : AtomMatches(a, text[k])
        /\ (j = Len(text) + 1 \/ ~AtomMatches(a, text[j]))

\* The positions at which a match of alt[k..] that starts at i can end.
RECURSIVE MatchEnds(_, _, _, _)
MatchEnds(alt, k, text, i) ==
    IF k > Len(alt) THEN {i}
    ELSE
        LET a == alt[k].a
            q == alt[k].q
            here == i <= Len(text) /\ AtomMatches(a, text[i])
        IN  IF q = "@"
            THEN IF AssertionHolds(a, text, i)
                 THEN MatchEnds(alt, k + 1, text, i) ELSE {}
            ELSE IF q = "1"
            THEN IF here THEN MatchEnds(alt, k + 1, text, i + 1) ELSE {}
            ELSE IF q = "?"
            THEN MatchEnds(alt, k + 1, text, i)
                     \cup (IF here THEN MatchEnds(alt, k + 1, text, i + 1)
                           ELSE {})
            ELSE \* "*" and "+"
                UNION {MatchEnds(alt, k + 1, text, j) :
                          j \in (IF q = "+" THEN i + 1 ELSE i)..RunEnd(a, text, i)}

\* re.search(pattern, text): some alternative matches from some position.
re_search(pattern, text) ==
    \E alt \in pattern : \E i \in 1..(Len(text) + 1) :
        MatchEnds(alt, 1, text, i) # {}

\* ------------------------------------------------------------------------
\* understanding_meter.py: the signal patterns
\* ------------------------------------------------------------------------

WB == Tok("\\b", "@")

WS0 == Tok("\\s", "*")

\* \b(yes|correct|exactly|right|understand|got it|i see|makes sense)\b
PositiveAffirmation ==
    {WB \o Lit(w) \o WB : w \in {
        <<"y", "e", "s">>,
        <<"c", "o", "r", "r", "e", "c", "t">>,
        <<"e", "x", "a", "c", "t", "l", "y">>,
        <<"r", "i", "g", "h", "t">>,
        <<"u", "n", "d", "e", "r", "s", "t", "a", "n", "d">>,
        <<"g", "o", "t", " ", "i", "t">>,
        <<"i", " ", "s", "e", "e">>,
        <<"m", "a", "k", "e", "s", " ", "s", "e", "n", "s", "e">>}}

\* \b(the formula|newton|f\s*=\s*ma|mass|acceleration|force)\b
PositiveDomain ==
    {WB \o Lit(w) \o WB : w \in {
        <<"t", "h", "e", " ", "f", "o", "r", "m", "u", "l", "a">>,
        <<"n", "e", "w", "t", "o", "n">>,
        <<"m", "a", "s", "s">>,
        <<"a", "c", "c", "e", "l", "e", "r", "a", "t", "i", "o", "n">>,
        <<"f", "o", "r", "c", "e">>}}
    \cup {WB \o Lit(<<"f">>) \o WS0 \o Lit(<<"=">>) \o WS0
             \o Lit(<<"m", "a">>) \o WB}

\* \b(substitute|plug in|calculate|equals|result)\b
PositiveProcedure ==
    {WB \o Lit(w) \o WB : w \in {
        <<"s", "u", "b", "s", "t", "i", "t", "u", "t", "e">>,
        <<"p", "l", "u", "g", " ", "i", "n">>,
        <<"c", "a", "l", "c", "u", "l", "a", "t", "e">>,
        <<"e", "q", "u", "a", "l", "s">>,
        <<"r", "e", "s", "u", "l", "t">>}}

\* \d+\s*(m/s|kg|n|j|w|pa|k)
PositiveNumeric ==
    {Tok("\\d", "+") \o WS0 \o Lit(w) : w \in {
        <<"m", "/", "s">>, <<"k", "g">>, <<"n">>, <<"j">>, <<"w">>,
        <<"p", "a">>, <<"k">>}}

POSITIVE_SIGNALS ==
    <<PositiveAffirmation, PositiveDomain, PositiveProcedure, PositiveNumeric>>

\* \b(don'?t know|not sure|confused|no idea|don'?t understand|i give up)\b
NegativeConfusion ==
    {WB \o Lit(w) \o WB : w \in {
        <<"n", "o", "t", " ", "s", "u", "r", "e">>,
        <<"c", "o", "n", "f", "u", "s", "e", "d">>,
        <<"n", "o", " ", "i", "d", "e", "a">>,
        <<"i", " ", "g", "i", "v", "e", " ", "u", "p">>}}
    \cup {WB \o Lit(<<"d", "o", "n">>) \o Tok("'", "?") \o Lit(w) \o WB :
             w \in {<<"t", " ", "k", "n", "o", "w">>,
                    <<"t", " ", "u", "n", "d", "e", "r", "s", "t", "a", "n", "d">>}}

\* \b(what|why|how)\?$
NegativeQuestion ==
    {WB \o Lit(w) \o Lit(<<"?">>) \o Tok("$", "@") : w \in {
        <<"w", "h", "a", "t">>, <<"w", "h", "y">>, <<"h", "o", "w">>}}

\* ^\s*\?+\s*$
NegativeBare ==
    {Tok("^", "@") \o WS0 \o Tok("?", "+") \o WS0 \o Tok("$", "@")}

NEGATIVE_SIGNALS == <<NegativeConfusion, NegativeQuestion, NegativeBare>>

\* Lines 50-57: the number of patterns of a list that the text matches.
hits(signals, text) ==
    Cardinality({p \in 1..Len(signals) : re_search(signals[p], text)})

\* classify with "at least three" for "at least two" positive signals.
classify_three(pos_hits, neg_hits) ==
    IF pos_hits >= 3 /\ neg_hits = 0
    THEN <<"correct", METER_STEP_CORRECT>>
    ELSE IF pos_hits >= 1 \/ neg_hits = 0
    THEN <<"partial", METER_STEP_PARTIAL>>
    ELSE <<"incorrect", METER_STEP_INCORRECT>>

\* classify without "or neg_hits == 0": no signal at all is incorrect.
classify_no_default(pos_hits, neg_hits) ==
    IF pos_hits >= 2 /\ neg_hits = 0
    THEN <<"correct", METER_STEP_CORRECT>>
    ELSE IF pos_hits >= 1
    THEN <<"partial", METER_STEP_PARTIAL>>
    ELSE <<"incorrect", METER_STEP_INCORRECT>>

\* Lines 59-64: the verdict and the delta of the two counts.
classify(pos_hits, neg_hits) ==
    IF pos_hits >= 2 /\ neg_hits = 0
    THEN <<"correct", METER_STEP_CORRECT>>
    ELSE IF pos_hits >= 1 \/ neg_hits = 0
    THEN <<"partial", METER_STEP_PARTIAL>>
    ELSE <<"incorrect", METER_STEP_INCORRECT>>

\* UnderstandingMeter._heuristic_score: <<verdict, delta>> of a reply.
_heuristic_score(student_reply) ==
    LET text == lower(student_reply)
        pos_hits == hits(POSITIVE_SIGNALS, text)
        neg_hits == hits(NEGATIVE_SIGNALS, text)
    IN  classify(pos_hits, neg_hits)

\* ------------------------------------------------------------------------
\* Inputs
\* ------------------------------------------------------------------------

\* The student replies update() is called with:
\*    1  ''                                         pos_hits = 0, neg_hits = 0
\*    2  'asdf'                                     pos_hits = 0, neg_hits = 0
\*    3  'Yes'                                      pos_hits = 1, neg_hits = 0
\*    4  'Yes, mass'                                pos_hits = 2, neg_hits = 0
\*    5  'F = ma equals 10 N, right'                pos_hits = 4, neg_hits = 0
\*    6  'not sure'                                 pos_hits = 0, neg_hits = 1
\*    7  '?'                                        pos_hits = 0, neg_hits = 1
\*    8  'not sure why?'                            pos_hits = 0, neg_hits = 2
\*    9  'yes but not sure'                         pos_hits = 1, neg_hits = 1
\*   10  'mass equals 5kg, dont know'               pos_hits = 3, neg_hits = 1
\*   11  'yes, not sure why?'                       pos_hits = 1, neg_hits = 2
\*   12  'mass equals 5 kg'                         pos_hits = 3, neg_hits = 0
\*   13  'Yes mass, I give up'                      pos_hits = 2, neg_hits = 1
\*   14  'F=ma equals 10 N right, not sure why?'    pos_hits = 4, neg_hits = 2
\*   15  'why?\n'                                   pos_hits = 0, neg_hits = 1
\*   16  ' ?? '                                     pos_hits = 0, neg_hits = 1
\*   17  "mass result, i don't know how?"           pos_hits = 2, neg_hits = 2
\*   18  'eyes'                                     pos_hits = 0, neg_hits = 0
\*   19  "I don't understand"                       pos_hits = 1, neg_hits = 1
\*   20  'F = ma equals 10 N, right, i give up'     pos_hits = 4, neg_hits = 1
\*   21  'mass equals 5kg, not sure why?'           pos_hits = 3, neg_hits = 2
\*   22  'Yes exactly! F = ma, mass is 5kg, acceleration 2 m/s²'
\*                                                  pos_hits = 3, neg_hits = 0
\*   23  "I don't know, I'm confused"               pos_hits = 0, neg_hits = 1
Replies == <<
    <<>>,
    <<"a", "s", "d", "f">>,
    <<"Y", "e", "s">>,
    <<"Y", "e", "s", ",", " ", "m", "a", "s", "s">>,
    <<"F", " ", "=", " ", "m", "a", " ", "e", "q", "u", "a", "l", "s", " ",
      "1", "0", " ", "N", ",", " ", "r", "i", "g", "h", "t">>,
    <<"n", "o", "t", " ", "s", "u", "r", "e">>,
    <<"?">>,
    <<"n", "o", "t", " ", "s", "u", "r", "e", " ", "w", "h", "y", "?">>,
    <<"y", "e", "s", " ", "b", "u", "t", " ", "n", "o", "t", " ", "s", "u",
      "r", "e">>,
    <<"m", "a", "s", "s", " ", "e", "q", "u", "a", "l", "s", " ", "5", "k",
      "g", ",", " ", "d", "o", "n", "t", " ", "k", "n", "o", "w">>,
    <<"y", "e", "s", ",", " ", "n", "o", "t", " ", "s", "u", "r", "e", " ",
      "w", "h", "y", "?">>,
    <<"m", "a", "s", "s", " ", "e", "q", "u", "a", "l", "s", " ", "5", " ",
      "k", "g">>,
    <<"Y", "e", "s", " ", "m", "a", "s", "s", ",", " ", "I", " ", "g", "i",
      "v", "e", " ", "u", "p">>,
    <<"F", "=", "m", "a", " ", "e", "q", "u", "a", "l", "s", " ", "1", "0",
      " ", "N", " ", "r", "i", "g", "h", "t", ",", " ", "n", "o", "t", " ",
      "s", "u", "r", "e", " ", "w", "h", "y", "?">>,
    <<"w", "h", "y", "?", "\n">>,
    <<" ", "?", "?", " ">>,
    <<"m", "a", "s", "s", " ", "r", "e", "s", "u", "l", "t", ",", " ", "i",
      " ", "d", "o", "n", "'", "t", " ", "k", "n", "o", "w", " ", "h", "o",
      "w", "?">>,
    <<"e", "y", "e", "s">>,
    <<"I", " ", "d", "o", "n", "'", "t", " ", "u", "n", "d", "e", "r", "s",
      "t", "a", "n", "d">>,
    <<"F", " ", "=", " ", "m", "a", " ", "e", "q", "u", "a", "l", "s", " ",
      "1", "0", " ", "N", ",", " ", "r", "i", "g", "h", "t", ",", " ", "i",
      " ", "g", "i", "v", "e", " ", "u", "p">>,
    <<"m", "a", "s", "s", " ", "e", "q", "u", "a", "l", "s", " ", "5", "k",
      "g", ",", " ", "n", "o", "t", " ", "s", "u", "r", "e", " ", "w", "h",
      "y", "?">>,
    <<"Y", "e", "s", " ", "e", "x", "a", "c", "t", "l", "y", "!", " ", "F",
      " ", "=", " ", "m", "a", ",", " ", "m", "a", "s", "s", " ", "i", "s",
      " ", "5", "k", "g", ",", " ", "a", "c", "c", "e", "l", "e", "r", "a",
      "t", "i", "o", "n", " ", "2", " ", "m", "/", "s", "²">>,
    <<"I", " ", "d", "o", "n", "'", "t", " ", "k", "n", "o", "w", ",", " ",
      "I", "'", "m", " ", "c", "o", "n", "f", "u", "s", "e", "d">>
>>

\* What the evaluator call of _llm_score (lines 80-89) can come to: the call
\* raises, or it returns a text that json.loads rejects, or json.loads gives a
\* value.  A value is [t |-> its Python type, ...]; a dict carries has_score
\* and, when it has one, the value of its "score" key.
\*    1  llm_engine.generate raises (model file unreadable, llama error)
\*    2  'That is a great question! ...'      not JSON (the demo response)
\*    3  '[85]'                               a list
\*    4  '85'                                 a number
\*    5  'null'                               None
\*    6  '{"score": 85, "feedback": "ok"}'
\*    7  '{"score": 55, "feedback": "ok"}'
\*    8  '{"score": 10, "feedback": "ok"}'
\*    9  '{"feedback": "ok"}'                 no score
\*   10  '{"score": "85"}'                    a string of digits
\*   11  '{"score": " +7_0 "}'                a string int() accepts
\*   12  '{"score": "high"}'                  a string int() rejects
\*   13  '{"score": "69.9"}'                  a string int() rejects
\*   14  '{"score": null}'
\*   15  '{"score": 69.9}'                    a float
\*   16  '{"score": -0.5}'                    a float
\*   17  '{"score": NaN}'
\*   18  '{"score": [85]}'
\*   19  '{"score": true}'
\*   20  '{"score": 70}'                      the least score of correct
\*   21  '{"score": 69}'
\*   22  '{"score": 40}'                      the least score of partial
\*   23  '{"score": 39}'
\*   24  '{"score": -5}'                      under the 0-100 asked for
\*   25  '{"score": 150}'                     over the 0-100 asked for
\*   26  '{"score": Infinity}'
\*   27  'That is a great question! ...'      llm_engine._demo_response: no
\*                                           model is installed, generate
\*                                           answers with a canned text
\* An outcome with call = "return" or "raise" is one of the installed model
\* (llm_engine.generate, lines 93-106).
LlmOutcomes == <<
    [call |-> "raise"],
    [call |-> "return", json |-> "invalid"],
    [call |-> "return", json |-> "value", data |-> [t |-> "list"]],
    [call |-> "return", json |-> "value", data |-> [t |-> "int", v |-> 85]],
    [call |-> "return", json |-> "value", data |-> [t |-> "NoneType"]],
    [call |-> "return", json |-> "value", data |->
        [t |-> "dict", has_score |-> TRUE, score |-> [t |-> "int", v |-> 85]]],
    [call |-> "return", json |-> "value", data |->
        [t |-> "dict", has_score |-> TRUE, score |-> [t |-> "int", v |-> 55]]],
    [call |-> "return", json |-> "value", data |->
        [t |-> "dict", has_score |-> TRUE, score |-> [t |-> "int", v |-> 10]]],
    [call |-> "return", json |-> "value", data |->
        [t |-> "dict", has_score |-> FALSE]],
    [call |-> "return", json |-> "value", data |->
        [t |-> "dict", has_score |-> TRUE,
         score |-> [t |-> "str", v |-> <<"8", "5">>]]],
    [call |-> "return", json |-> "value", data |->
        [t |-> "dict", has_score |-> TRUE,
         score |-> [t |-> "str", v |-> <<" ", "+", "7", "_", "0", " ">>]]],
    [call |-> "return", json |-> "value", data |->
        [t |-> "dict", has_score |-> TRUE,
         score |-> [t |-> "str", v |-> <<"h", "i", "g", "h">>]]],
    [call |-> "return", json |-> "value", data |->
        [t |-> "dict", has_score |-> TRUE,
         score |-> [t |-> "str", v |-> <<"6", "9", ".", "9">>]]],
    [call |-> "return", json |-> "value", data |->
        [t |-> "dict", has_score |-> TRUE, score |-> [t |-> "NoneType"]]],
    [call |-> "return", json |-> "value", data |->
        [t |-> "dict", has_score |-> TRUE,
         score |-> [t |-> "float", num |-> 699, den |-> 10]]],
    [call |-> "return", json |-> "value", data |->
        [t |-> "dict", has_score |-> TRUE,
         score |-> [t |-> "float", num |-> -5, den |-> 10]]],
    [call |-> "return", json |-> "value", data |->
        [t |-> "dict", has_score |-> TRUE, score |-> [t |-> "float_nan"]]],
    [call |-> "return", json |-> "value", data |->
        [t |-> "dict", has_score |-> TRUE, score |-> [t |-> "list"]]],
    [call |-> "return", json |-> "value", data |->
        [t |-> "dict", has_score |-> TRUE, score |-> [t |-> "bool", v |-> TRUE]]],
    [call |-> "return", json |-> "value", data |->
        [t |-> "dict", has_score |-> TRUE, score |-> [t |-> "int", v |-> 70]]],
    [call |-> "return", json |-> "value", data |->
        [t |-> "dict", has_score |-> TRUE, score |-> [t |-> "int", v |-> 69]]],
    [call |-> "return", json |-> "value", data |->
        [t |-> "dict", has_score |-> TRUE, score |-> [t |-> "int", v |-> 40]]],
    [call |-> "return", json |-> "value", data |->
        [t |-> "dict", has_score |-> TRUE, score |-> [t |-> "int", v |-> 39]]],
    [call |-> "return", json |-> "value", data |->
        [t |-> "dict", has_score |-> TRUE, score |-> [t |-> "int", v |-> -5]]],
    [call |-> "return", json |-> "value", data |->
        [t |-> "dict", has_score |-> TRUE, score |-> [t |-> "int", v |-> 150]]],
    [call |-> "return", json |-> "value", data |->
        [t |-> "dict", has_score |-> TRUE, score |-> [t |-> "float_inf"]]],
    [call |-> "demo", json |-> "invalid"]
>>

\* ------------------------------------------------------------------------
\* Python results: a value, or an exception on its way to the caller
\* ------------------------------------------------------------------------

Return(v) == [exc |-> "none", val |-> v]

Raise(e) == [exc |-> e, val |-> <<>>]

\* ------------------------------------------------------------------------
\* int()
\* ------------------------------------------------------------------------

DigitChars == <<"0", "1", "2", "3", "4", "5", "6", "7", "8", "9">>

\* str.strip()
strip(s) ==
    LET first == RunEnd("\\s", s, 1)
        last == CHOOSE j \in 0..Len(s) :
                    /\ \A k \in (j + 1)..Len(s) : s[k] \in Whitespace
                    /\ (j = 0 \/ s[j] \notin Whitespace)
    IN  IF first > Len(s) THEN <<>> ELSE SubSeq(s, first, last)

\* The value of a string of digits and underscores.
RECURSIVE DigitsValue(_)
DigitsValue(ds) ==
    IF ds = <<>> THEN 0
    ELSE LET front == SubSeq(ds, 1, Len(ds) - 1)
             c == ds[Len(ds)]
         IN  IF c = "_" THEN DigitsValue(front)
             ELSE 10 * DigitsValue(front)
                      + (CHOOSE d \in 0..9 : DigitChars[d + 1] = c)

\* int(str) once the sign is split off: digits, single underscores allowed
\* between digits; anything else is a ValueError.
int_of_signed(negative, body) ==
    IF /\ body # <<>>
       /\ \A k \in 1..Len(body) : body[k] \in Digits \cup {"_"}
       /\ body[1] \in Digits
       /\ body[Len(body)] \in Digits
       /\ \A k \in 1..(Len(body) - 1) : ~(body[k] = "_" /\ body[k + 1] = "_")
    THEN Return(IF negative THEN 0 - DigitsValue(body) ELSE DigitsValue(body))
    ELSE Raise("ValueError")

\* int(str) once the surrounding whitespace is stripped: an optional sign.
int_of_stripped(t) ==
    IF t # <<>> /\ t[1] \in {"+", "-"}
    THEN int_of_signed(t[1] = "-", SubSeq(t, 2, Len(t)))
    ELSE int_of_signed(FALSE, t)

\* int(str)
int_of_str(s) == int_of_stripped(strip(s))

\* int(x) of a value json.loads can give.
int(x) ==
    IF x.t = "int" THEN Return(x.v)
    ELSE IF x.t = "bool" THEN Return(IF x.v THEN 1 ELSE 0)
    ELSE IF x.t = "float"
    THEN \* truncation towards zero
         Return(IF x.num >= 0 THEN x.num \div x.den
                ELSE 0 - ((0 - x.num) \div x.den))
    ELSE IF x.t = "float_nan" THEN Raise("ValueError")
    ELSE IF x.t = "float_inf" THEN Raise("OverflowError")
    ELSE IF x.t = "str" THEN int_of_str(x.v)
    ELSE Raise("TypeError")

\* ------------------------------------------------------------------------
\* understanding_meter.py: LLM scoring
\* ------------------------------------------------------------------------

\* llm_verdict with "> 70" for ">= 70".
llm_verdict_exclusive(score_val) ==
    IF score_val > 70 THEN <<"correct", METER_STEP_CORRECT>>
    ELSE IF score_val >= 40 THEN <<"partial", METER_STEP_PARTIAL>>
    ELSE <<"incorrect", METER_STEP_INCORRECT>>

\* Lines 92-97: the verdict and the delta of the evaluator's score.
llm_verdict(score_val) ==
    IF score_val >= 70 THEN <<"correct", METER_STEP_CORRECT>>
    ELSE IF score_val >= 40 THEN <<"partial", METER_STEP_PARTIAL>>
    ELSE <<"incorrect", METER_STEP_INCORRECT>>

\* Line 90 and lines 92-97: an exception of int() goes on, a value gets its
\* verdict.
llm_verdict_of(converted) ==
    IF converted.exc # "none" THEN converted
    ELSE Return(llm_verdict(converted.val))

\* llm_try with data["score"] for data.get("score", 50): a missing score is
\* a KeyError.
llm_try_required(outcome) ==
    IF outcome.call = "raise" THEN Raise("RuntimeError")
    ELSE IF outcome.json = "invalid" THEN Raise("JSONDecodeError")
    ELSE IF outcome.data.t # "dict" THEN Raise("AttributeError")
    ELSE IF ~outcome.data.has_score THEN Raise("KeyError")
    ELSE llm_verdict_of(int(outcome.data.score))

\* Lines 74-97, the body of the try: of an evaluator outcome, the verdict and
\* the delta it returns or the exception it raises.
llm_try(outcome) ==
    IF outcome.call = "raise" THEN Raise("RuntimeError")
    ELSE IF outcome.json = "invalid" THEN Raise("JSONDecodeError")
    ELSE IF outcome.data.t # "dict" THEN Raise("AttributeError")
    ELSE llm_verdict_of(int(IF outcome.data.has_score
                            THEN outcome.data.score
                            ELSE [t |-> "int", v |-> 50]))

\* llm_except without the handler: the exception goes on to the caller.
llm_except_reraise(tried, student_reply) == tried

\* Lines 99-101: the except clause, on the result of the try.
llm_except(tried, student_reply) ==
    IF tried.exc # "none"
    THEN Return(_heuristic_score(student_reply))
    ELSE tried

\* UnderstandingMeter._llm_score: lines 73-101, the try and its except.
_llm_score(student_reply, outcome) ==
    llm_except(llm_try(outcome), student_reply)

\* The replies update() is given, and the evaluator outcomes, by number.
AllReplies == 1..Len(Replies)

AllOutcomes == 1..Len(LlmOutcomes)

\* Lines 124-127 of update(), for the inputs of the model: the result of the
\* scorer that use_llm selects, for reply r and evaluator outcome l.
score_reply(r, use_llm, l) ==
    IF use_llm
    THEN _llm_score(Replies[r], LlmOutcomes[l])
    ELSE Return(_heuristic_score(Replies[r]))

\* Lines 48-57, evaluated once for every reply: pos_hits and neg_hits.
SignalHits ==
    [r \in AllReplies |->
        [pos_hits |-> hits(POSITIVE_SIGNALS, lower(Replies[r])),
         neg_hits |-> hits(NEGATIVE_SIGNALS, lower(Replies[r]))]]

\* score_reply, evaluated once for every input.
Scored ==
    [heuristic |-> [r \in AllReplies |-> score_reply(r, FALSE, 0)],
     llm |-> [r \in AllReplies |->
                 [l \in AllOutcomes |-> score_reply(r, TRUE, l)]]]

\* ------------------------------------------------------------------------
\* understanding_meter.py: the meter
\* ------------------------------------------------------------------------

max(a, b) == IF a >= b THEN a ELSE b

min(a, b) == IF a <= b THEN a ELSE b

\* _badge without its final else: a score under 25 has no badge.
_badge_no_else(s) ==
    IF s >= 85 THEN "Expert"
    ELSE IF s >= 65 THEN "Proficient"
    ELSE IF s >= 45 THEN "Developing"
    ELSE IF s >= 25 THEN "Beginner"
    ELSE "None"

\* _badge with "> 65" for ">= 65".
_badge_strict(s) ==
    IF s >= 85 THEN "Expert"
    ELSE IF s > 65 THEN "Proficient"
    ELSE IF s >= 45 THEN "Developing"
    ELSE IF s >= 25 THEN "Beginner"
    ELSE "Needs Help"

\* _badge with the labels of the two middle bands exchanged.
_badge_swapped(s) ==
    IF s >= 85 THEN "Expert"
    ELSE IF s >= 65 THEN "Developing"
    ELSE IF s >= 45 THEN "Proficient"
    ELSE IF s >= 25 THEN "Beginner"
    ELSE "Needs Help"

\* UnderstandingMeter._badge
_badge(s) ==
    IF s >= 85 THEN "Expert"
    ELSE IF s >= 65 THEN "Proficient"
    ELSE IF s >= 45 THEN "Developing"
    ELSE IF s >= 25 THEN "Beginner"
    ELSE "Needs Help"

\* ------------------------------------------------------------------------
\* socratic_prompt.py: the system prompt
\* ------------------------------------------------------------------------

\* str.upper() on one character.
upper_char(c) ==
    IF \E i \in 1..26 : LowerChars[i] = c
    THEN UpperChars[CHOOSE i \in 1..26 : LowerChars[i] = c]
    ELSE c

\* str.upper()
upper(text) == [i \in 1..Len(text) |-> upper_char(text[i])]

\* str.capitalize()
capitalize(text) ==
    [i \in 1..Len(text) |->
        IF i = 1 THEN upper_char(text[i]) ELSE lower_char(text[i])]

hint == <<"h", "i", "n", "t">>

scaffolded == <<"s", "c", "a", "f", "f", "o", "l", "d", "e", "d">>

socratic == <<"s", "o", "c", "r", "a", "t", "i", "c">>

deep == <<"d", "e", "e", "p">>

\* Lines 75-98: the instruction text of each mode, by its first sentence.
mode_instructions ==
    [m \in {scaffolded, socratic, deep, hint} |->
        IF m = scaffolded THEN "The student is a beginner and is struggling."
        ELSE IF m = socratic
        THEN "Use the Socratic Method strictly: NEVER give direct answers."
        ELSE IF m = deep THEN "The student shows good understanding."
        ELSE "The student has struggled or looks frustrated."]

\* select_mode with "<= 30" for "< 30".
select_mode_inclusive(understanding_score, wrong_answer_count, emotion) ==
    IF wrong_answer_count >= HINT_THRESHOLD \/ emotion \in {"sad", "angry", "fear"}
    THEN hint
    ELSE IF understanding_score <= 30 THEN scaffolded
    ELSE IF understanding_score < 60 THEN socratic
    ELSE deep

\* select_mode with the score rules ahead of the hint rule.
select_mode_score_first(understanding_score, wrong_answer_count, emotion) ==
    IF understanding_score < 30 THEN scaffolded
    ELSE IF wrong_answer_count >= HINT_THRESHOLD
            \/ emotion \in {"sad", "angry", "fear"}
    THEN hint
    ELSE IF understanding_score < 60 THEN socratic
    ELSE deep

\* Lines 65-73: the hint escalation logic.
select_mode(understanding_score, wrong_answer_count, emotion) ==
    IF wrong_answer_count >= HINT_THRESHOLD \/ emotion \in {"sad", "angry", "fear"}
    THEN hint
    ELSE IF understanding_score < 30 THEN scaffolded
    ELSE IF understanding_score < 60 THEN socratic
    ELSE deep

\* build_system_prompt: the prompt, by the values its template is filled with.
build_system_prompt(language, subject, understanding_score, wrong_answer_count, emotion) ==
    LET lang_name == language
        mode == select_mode(understanding_score, wrong_answer_count, emotion)
    IN  [specializing_in |-> subject,
         respond_in |-> lang_name,
         teaching_mode |-> upper(mode),
         instructions |-> mode_instructions[mode],
         subject |-> capitalize(subject),
         comprehension |-> understanding_score,
         emotion |-> emotion]

\* ------------------------------------------------------------------------
\* Bounds and input sets
\* ------------------------------------------------------------------------

\* The bound on turn_count in a session (Spec).
MaxTurns == 7

\* The bound on turn_count when every input is tried (SpecScoring).
MaxScoringTurns == 1

\* The bound on the wrong_answer_count given to build_system_prompt.
MaxWrong == 4

\* The bound on llm_engine._demo_index.
MaxDemoIndex == 2

\* The bounds of a long run of one verdict (SpecRun): the updates of any
\* verdict before the run, and the updates of the run.
MaxPrefix == 6

MaxRun == 20

\* The bound on the threads that TTSEngine.start() makes.
MaxThreads == 2

\* The bound on the items of TTSEngine._queue.
MaxQueue == 2

\* The bound on the cv2.VideoCapture objects that EmotionEngine.start() makes.
MaxCaptures == 1

\* None for a frame.
NoFrame == <<>>

\* The replies and the evaluator outcomes of a session (Spec): the empty
\* reply, a reply of each heuristic verdict, a reply of mixed signals; the
\* evaluator raising, answering no JSON, a high score, a low score, no score.
SessionReplies == {1, 2, 4, 6, 9}

SessionOutcomes == {1, 2, 6, 8, 9}

\* The emotion labels: DeepFace's dominant emotions and no_face
\* (emotion_engine.py, lines 167-175).
Emotions ==
    {"angry", "disgust", "fear", "happy", "sad", "surprise", "neutral",
     "no_face"}

\* config.SUPPORTED_LANGUAGES (two of them).
Languages == {"English", "Hindi"}

DEFAULT_LANGUAGE == "English"

\* The subject of a session before any text is read (app.py, line 347).
general == <<"g", "e", "n", "e", "r", "a", "l">>

\* The replies of a tutoring session (SpecTutor): 'Yes' and the two
\* replies of the specification's examples.
TutorReplies == {3, 22, 23}

\* The emotions of a tutoring session (SpecTutor): the initial one, one that
\* asks for hints and one that does not.
TutorEmotions == {"neutral", "sad", "happy"}

\* detect_subject's results (two of them).
Subjects ==
    {<<"g", "e", "n", "e", "r", "a", "l">>,
     <<"p", "h", "y", "s", "i", "c", "s">>}

\* ------------------------------------------------------------------------
\* The state machine
\* ------------------------------------------------------------------------

VARIABLES
    score,          \* UnderstandingMeter.score
    turn_count,     \* UnderstandingMeter.turn_count
    wrong_streak,   \* UnderstandingMeter.wrong_streak
    history,        \* UnderstandingMeter.history
    _demo_index,    \* llm_engine._demo_index
    _llm_instance,  \* llm_engine._llm_instance: "None" or "Llama"
    session_state,  \* app.py: st.session_state (but its meter)
    tts_engine,     \* tts_engine.engine and its worker threads
    emotion_bg_engine,  \* emotion_engine.engine and its threads
    call            \* the last call: its name, its arguments and its result

vars ==
    <<score, turn_count, wrong_streak, history, _demo_index, _llm_instance,
      session_state, tts_engine, emotion_bg_engine, call>>

\* The fields of the meter.
meter == <<score, turn_count, wrong_streak, history>>

\* The globals of the module llm_engine.
llm_engine == <<_demo_index, _llm_instance>>

\* llm_engine as imported: lines 21 and 130.
llm_engine_imported ==
    /\ _demo_index = 0
    /\ _llm_instance = "None"

\* What app.py holds besides the meter and llm_engine: the session state and
\* the two engines it imports (lines 18-19).
app == <<session_state, tts_engine, emotion_bg_engine>>

\* An item of TTSEngine._queue: the None of stop() (line 46), or a text of
\* say() (line 67).  stopped tells that the text was queued after a stop()
\* and that no start() has made a thread since.
NoneItem == [none |-> TRUE, text |-> <<>>, stopped |-> FALSE]

\* TTSEngine.__init__ (lines 21-26), with pyttsx3 imported or not (lines
\* 14-18).  threads[t] is the t-th thread that start() has made: where it is
\* in _process_loop and the item it has taken; caller is where the thread
\* that calls the engine is: in no call ("idle"), in the join of stop()
\* ("join") or in the loop of set_muted(True) ("clear"); stopped tells that
\* stop() has been called and that no start() has made a thread since.
TTSEngine(pyttsx3) ==
    [pyttsx3 |-> pyttsx3,
     _queue |-> <<>>,
     _running |-> FALSE,
     _thread |-> 0,
     _muted |-> FALSE,
     _engine |-> "None",
     stopped |-> FALSE,
     threads |-> [t \in 1..MaxThreads |-> [pc |-> "none", item |-> NoneItem,
                                        taken_muted |-> FALSE]],
     caller |-> "idle"]

\* EmotionEngine.__init__ (lines 61-72), with DeepFace imported or not (lines
\* 16-20).  devices[d] is the d-th cv2.VideoCapture that start() has made;
\* capture[d] and analyze[d] are the threads made with it: where each is in
\* its loop and what it holds; caller is where the thread that calls the
\* engine is: in no call ("idle") or at a line of stop(); analyzed tells
\* that an analysis has stored its emotion.
EmotionEngine(DeepFace) ==
    [DeepFace |-> DeepFace,
     cap |-> 0,
     _running |-> FALSE,
     _capture_thread |-> 0,
     _analyze_thread |-> 0,
     _server |-> "None",
     _latest_emotion |-> "neutral",
     _latest_frame_bgr |-> NoFrame,
     _latest_frame_rgb |-> NoFrame,
     _lock |-> "free",
     analyzed |-> FALSE,
     devices |-> [d \in 1..MaxCaptures |-> "none"],
     capture |-> [d \in 1..MaxCaptures |->
                     [pc |-> "none", dev |-> 0, frame |-> NoFrame]],
     analyze |-> [d \in 1..MaxCaptures |->
                     [pc |-> "none", frame |-> NoFrame,
                      outcome |-> [exc |-> "None"]]],
     caller |-> "idle"]

\* app.py as started: init_session (lines 343-357) and the engines as their
\* modules make them (tts_engine.py line 108, emotion_engine.py line 245),
\* with pyttsx3 and DeepFace installed.
app_started ==
    /\ session_state = [chat_history |-> <<>>,
                        ocr_text |-> <<>>,
                        subject |-> general,
                        language |-> DEFAULT_LANGUAGE,
                        session_active |-> FALSE,
                        current_emotion |-> "neutral"]
    /\ tts_engine = TTSEngine(TRUE)
    /\ emotion_bg_engine = EmotionEngine(TRUE)

\* UnderstandingMeter.__init__
Init ==
    /\ score = METER_INITIAL_SCORE
    /\ turn_count = 0
    /\ wrong_streak = 0
    /\ history = <<>>
    /\ llm_engine_imported
    /\ app_started
    /\ call = [op |-> "__init__"]

\* llm_engine.generate, by what it does to the globals of its module, for
\* the evaluator outcome it comes to.  Without an installed model (line 90)
\* _demo_response takes the next canned text and counts it (lines 135-137).
\* With one, _get_llm loads it on the first call and keeps it (lines 32-59);
\* a call that raises has failed in loading the model or in running it.
generate(outcome) ==
    IF outcome.call = "demo"
    THEN /\ _demo_index < MaxDemoIndex
         /\ _demo_index' = _demo_index + 1
         /\ UNCHANGED _llm_instance
    ELSE IF outcome.call = "return"
    THEN /\ _llm_instance' = "Llama"
         /\ UNCHANGED _demo_index
    ELSE /\ _llm_instance' \in {_llm_instance, "Llama"}
         /\ UNCHANGED _demo_index

\* update_streak without the reset.
update_streak_keep(verdict) ==
    IF verdict = "incorrect" THEN wrong_streak + 1 ELSE wrong_streak

\* update_streak with 1 for one more.
update_streak_set_one(verdict) ==
    IF verdict = "incorrect" THEN 1 ELSE 0

\* update_streak with one step down for the reset.
update_streak_decay(verdict) ==
    IF verdict = "incorrect" THEN wrong_streak + 1
    ELSE max(0, wrong_streak - 1)

\* Lines 129-133 of update(): the streak after a verdict.
update_streak(verdict) ==
    IF verdict = "incorrect" THEN wrong_streak + 1 ELSE 0

\* update_score without max(0, ...).
update_score_no_floor(delta) == min(100, score + delta)

\* update_score without min(100, ...).
update_score_no_ceiling(delta) == max(0, score + delta)

\* Lines 135-136 of update(): the score after a delta, clamped to [0, 100].
update_score(delta) == max(0, min(100, score + delta))

\* record_verdict with the applied change of the score as the record's delta.
record_verdict_applied_delta(r, use_llm, l, verdict, delta) ==
    /\ turn_count' = turn_count + 1
    /\ wrong_streak' = IF verdict = "incorrect" THEN wrong_streak + 1 ELSE 0
    /\ score' = max(0, min(100, score + delta))
    /\ history' = Append(history,
                         [turn |-> turn_count',
                          score |-> score',
                          delta |-> score' - score,
                          verdict |-> verdict,
                          badge |-> _badge(score')])
    /\ call' = [op |-> "update", reply |-> r, use_llm |-> use_llm, llm |-> l,
                exc |-> "none", ret |-> history'[Len(history')]]

\* record_verdict with the turn count before line 122 in the record.
record_verdict_stale_turn(r, use_llm, l, verdict, delta) ==
    /\ turn_count' = turn_count + 1
    /\ wrong_streak' = IF verdict = "incorrect" THEN wrong_streak + 1 ELSE 0
    /\ score' = max(0, min(100, score + delta))
    /\ history' = Append(history,
                         [turn |-> turn_count,
                          score |-> score',
                          delta |-> delta,
                          verdict |-> verdict,
                          badge |-> _badge(score')])
    /\ call' = [op |-> "update", reply |-> r, use_llm |-> use_llm, llm |-> l,
                exc |-> "none", ret |-> history'[Len(history')]]

\* record_verdict with the new badge written into the records before, too.
record_verdict_rebadge(r, use_llm, l, verdict, delta) ==
    /\ turn_count' = turn_count + 1
    /\ wrong_streak' = IF verdict = "incorrect" THEN wrong_streak + 1 ELSE 0
    /\ score' = max(0, min(100, score + delta))
    /\ history' = Append([i \in 1..Len(history) |->
                             [history[i] EXCEPT !.badge = _badge(score')]],
                         [turn |-> turn_count',
                          score |-> score',
                          delta |-> delta,
                          verdict |-> verdict,
                          badge |-> _badge(score')])
    /\ call' = [op |-> "update", reply |-> r, use_llm |-> use_llm, llm |-> l,
                exc |-> "none", ret |-> history'[Len(history')]]

\* Lines 129-148 of update(): the streak, the clamped score and the record
\* of a verdict and its delta.
record_verdict(r, use_llm, l, verdict, delta) ==
    /\ turn_count' = turn_count + 1
    /\ wrong_streak' = update_streak(verdict)
    /\ score' = update_score(delta)
    /\ history' = Append(history,
                         [turn |-> turn_count',
                          score |-> score',
                          delta |-> delta,
                          verdict |-> verdict,
                          badge |-> _badge(score')])
    /\ call' = [op |-> "update", reply |-> r, use_llm |-> use_llm, llm |-> l,
                exc |-> "none", ret |-> history'[Len(history')]]

\* Lines 122-127 of update() when the scorer raises: the exception leaves
\* update() after line 122.
raise_from_update(r, use_llm, l, exc) ==
    /\ turn_count' = turn_count + 1
    /\ UNCHANGED <<score, wrong_streak, history>>
    /\ call' = [op |-> "update", reply |-> r, use_llm |-> use_llm, llm |-> l,
                exc |-> exc]

\* Lines 122-148 of update() on the scorer's result.
update_scored(r, use_llm, l, scored) ==
    IF scored.exc # "none"
    THEN raise_from_update(r, use_llm, l, scored.exc)
    ELSE record_verdict(r, use_llm, l, scored.val[1], scored.val[2])

\* UnderstandingMeter.update(Replies[r], use_llm = ...) with evaluator
\* outcome LlmOutcomes[l] (l = 0: the evaluator is not called).
update(r, use_llm, l) ==
    /\ update_scored(r, use_llm, l,
                     IF use_llm THEN Scored.llm[r][l] ELSE Scored.heuristic[r])
    /\ IF use_llm THEN generate(LlmOutcomes[l]) ELSE UNCHANGED llm_engine

\* reset without line 154.
reset_keep_streak ==
    /\ score' = METER_INITIAL_SCORE
    /\ turn_count' = 0
    /\ UNCHANGED wrong_streak
    /\ history' = <<>>
    /\ UNCHANGED llm_engine
    /\ call' = [op |-> "reset", turn_count |-> turn_count]

\* UnderstandingMeter.reset; the call keeps the turn_count that reset found.
reset ==
    /\ score' = METER_INITIAL_SCORE
    /\ turn_count' = 0
    /\ wrong_streak' = 0
    /\ history' = <<>>
    /\ UNCHANGED llm_engine
    /\ call' = [op |-> "reset", turn_count |-> turn_count]

\* A session: update() on the heuristic path, update() on the LLM path, and
\* reset(), in any order.
UpdateHeuristic ==
    /\ turn_count < MaxTurns
    /\ \E r \in SessionReplies : update(r, FALSE, 0)
    /\ UNCHANGED app

UpdateLlm ==
    /\ turn_count < MaxTurns
    /\ \E r \in SessionReplies : \E l \in SessionOutcomes : update(r, TRUE, l)
    /\ UNCHANGED app

Reset ==
    /\ reset
    /\ UNCHANGED app

Next == UpdateHeuristic \/ UpdateLlm \/ Reset

Spec == Init /\ [][Next]_vars

\* The scorers on every reply and every evaluator outcome.
ScoreHeuristic ==
    /\ turn_count < MaxScoringTurns
    /\ \E r \in AllReplies : update(r, FALSE, 0)
    /\ UNCHANGED app

ScoreLlm ==
    /\ turn_count < MaxScoringTurns
    /\ \E r \in AllReplies : \E l \in AllOutcomes : update(r, TRUE, l)
    /\ UNCHANGED app

NextScoring == ScoreHeuristic \/ ScoreLlm \/ Reset

SpecScoring == Init /\ [][NextScoring]_vars

\* build_system_prompt on every score, wrong-answer count and emotion: the
\* arguments are drawn first, then the call is made.
InitPrompt ==
    /\ score = METER_INITIAL_SCORE
    /\ turn_count = 0
    /\ wrong_streak = 0
    /\ history = <<>>
    /\ llm_engine_imported
    /\ app_started
    /\ call \in [op : {"arguments"},
                 language : Languages,
                 subject : Subjects,
                 understanding_score : 0..100,
                 wrong_answer_count : 0..MaxWrong,
                 emotion : Emotions]

BuildSystemPrompt ==
    /\ call.op = "arguments"
    /\ call' = [call EXCEPT !.op = "build_system_prompt"] @@
               [mode |-> select_mode(call.understanding_score,
                                     call.wrong_answer_count, call.emotion),
                ret |-> build_system_prompt(
                            call.language, call.subject,
                            call.understanding_score,
                            call.wrong_answer_count, call.emotion)]
    /\ UNCHANGED <<meter, llm_engine>>
    /\ UNCHANGED app

NextPrompt == BuildSystemPrompt

SpecPrompt == InitPrompt /\ [][NextPrompt]_vars

\* build_prompt_of_meter with a side effect: hint mode clears the streak.
build_prompt_of_meter_clears_streak(language, subject, emotion) ==
    /\ call' = [op |-> "build_system_prompt",
                language |-> language,
                subject |-> subject,
                understanding_score |-> score,
                wrong_answer_count |-> wrong_streak,
                emotion |-> emotion,
                mode |-> select_mode(score, wrong_streak, emotion),
                ret |-> build_system_prompt(language, subject, score,
                                            wrong_streak, emotion)]
    /\ wrong_streak' = IF select_mode(score, wrong_streak, emotion) = hint
                       THEN 0 ELSE wrong_streak
    /\ UNCHANGED <<score, turn_count, history, llm_engine>>

\* app.py, lines 533-539 and 645-651: build_system_prompt on the meter's
\* score and wrong_streak and the current emotion.
build_prompt_of_meter(language, subject, emotion) ==
    /\ call' = [op |-> "build_system_prompt",
                language |-> language,
                subject |-> subject,
                understanding_score |-> score,
                wrong_answer_count |-> wrong_streak,
                emotion |-> emotion,
                mode |-> select_mode(score, wrong_streak, emotion),
                ret |-> build_system_prompt(language, subject, score,
                                            wrong_streak, emotion)]
    /\ UNCHANGED <<meter, llm_engine>>

\* A tutoring session: update() as the submit handler asks for it
\* (use_llm = False), the system prompt of the next question, and reset().
TutorUpdate ==
    /\ turn_count < MaxTurns
    /\ \E r \in TutorReplies : update(r, FALSE, 0)
    /\ UNCHANGED app

TutorPrompt ==
    /\ \E emotion \in TutorEmotions :
           build_prompt_of_meter(DEFAULT_LANGUAGE, general, emotion)
    /\ UNCHANGED app

NextTutor == TutorUpdate \/ TutorPrompt \/ Reset

SpecTutor == Init /\ [][NextTutor]_vars

\* _badge on every pair of scores in 0..100, and the badges of a session:
\* the arguments are drawn first, then the calls are made.
InitBadge ==
    /\ score = METER_INITIAL_SCORE
    /\ turn_count = 0
    /\ wrong_streak = 0
    /\ history = <<>>
    /\ llm_engine_imported
    /\ app_started
    /\ call \in [op : {"arguments"}, a : 0..100, b : 0..100]

Badge ==
    /\ call.op = "arguments"
    /\ call' = [op |-> "_badge", a |-> call.a, b |-> call.b,
                badge_a |-> _badge(call.a), badge_b |-> _badge(call.b)]
    /\ UNCHANGED <<meter, llm_engine>>
    /\ UNCHANGED app

NextBadge == Badge \/ UpdateHeuristic \/ UpdateLlm \/ Reset

SpecBadge == InitBadge /\ [][NextBadge]_vars

\* ------------------------------------------------------------------------
\* tts_engine.py: the speech queue and its worker thread
\* ------------------------------------------------------------------------

\* The texts given to say(): an empty one and one in Markdown.
SpeechTexts == {<<>>, <<"*", "H", "i", "*", " ">>}

\* Line 66: text.replace('*', '').replace('#', '').strip()
clean_text(text) ==
    LET keep(c) == c \notin {"*", "#"}
    IN  strip(SelectSeq(text, keep))

\* The threads that have been made and have not ended.
alive(e) == {t \in DOMAIN e.threads : e.threads[t].pc \notin {"none", "done"}}

\* The threads that are in the loop of _process_loop (lines 90-105).
in_loop(e) ==
    {t \in DOMAIN e.threads :
        e.threads[t].pc \in {"while", "get", "if_muted", "say", "speaking"}}

\* The next thread that start() makes.
new_thread(e) ==
    CHOOSE t \in DOMAIN e.threads :
        /\ e.threads[t].pc = "none"
        /\ \A u \in 1..(t - 1) : e.threads[u].pc # "none"

\* What a start() that makes a thread does to the marks of the items: none
\* of them is any more a text queued with no start() after it.
started(items) == [i \in DOMAIN items |-> [items[i] EXCEPT !.stopped = FALSE]]

\* TTSEngine.start (lines 28-40).
TTSEngine_start(e) ==
    IF ~e.pyttsx3 THEN e
    ELSE IF e._running THEN e
    ELSE [e EXCEPT !._running = TRUE,
                   !.stopped = FALSE,
                   !._thread = new_thread(e),
                   !._queue = started(@),
                   !.threads = [t \in DOMAIN @ |->
                                   IF t = new_thread(e)
                                   THEN [@[t] EXCEPT !.pc = "init"]
                                   ELSE [@[t] EXCEPT !.item.stopped = FALSE]]]

\* TTSEngine.stop up to its join (lines 44-48): with no thread there is
\* nothing to join and stop() returns.
TTSEngine_stop(e) ==
    [e EXCEPT !._running = FALSE,
              !.stopped = TRUE,
              !._queue = Append(@, NoneItem),
              !.caller = IF e._thread # 0 THEN "join" ELSE "idle"]

\* The calls of a thread that can last longer than the two seconds of a
\* join: pyttsx3.init() and the voices (lines 73-83), runAndWait() (line 98).
\* get(timeout=1.0) and sleep(1.0) end before the join does.
outlasts_join == {"init", "speaking"}

\* Line 48 of stop(): join(timeout=2.0) returns when the thread has ended,
\* or after two seconds while the thread is in a call that lasts longer.
TTSEngine_join(e) ==
    /\ e.caller = "join"
    /\ e.threads[e._thread].pc \in {"done"} \cup outlasts_join

\* Line 53 of set_muted: the flag; with True the loop of lines 56-60 comes
\* next.
set_muted_flag(e, muted) ==
    [e EXCEPT !._muted = muted,
              !.caller = IF muted THEN "clear" ELSE "idle"]

\* Lines 54-60 of set_muted(True): the items are taken from the queue until
\* it is empty.
set_muted_clear(e) ==
    [e EXCEPT !._queue = <<>>,
              !.caller = "idle"]

\* TTSEngine.set_muted (lines 51-60), with no step of a thread in it.
TTSEngine_set_muted(e, muted) ==
    IF muted THEN set_muted_clear(set_muted_flag(e, muted))
    ELSE set_muted_flag(e, muted)

\* TTSEngine.say (lines 62-67).
TTSEngine_say(e, text) ==
    IF ~e._muted /\ text # <<>>
    THEN [e EXCEPT !._queue = Append(@, [none |-> FALSE,
                                         text |-> clean_text(text),
                                         stopped |-> e.stopped])]
    ELSE e

\* _process_loop, lines 71-88: the engine is made, or it is not and the
\* thread ends.
ProcessInit(t) ==
    /\ tts_engine.threads[t].pc = "init"
    /\ \/ tts_engine' = [tts_engine EXCEPT !._engine = "Engine",
                                           !.threads[t].pc = "while"]
       \/ tts_engine' = [tts_engine EXCEPT !._running = FALSE,
                                           !.threads[t].pc = "done"]

\* ProcessWhile with no test: the loop goes on whatever _running is.
ProcessWhile_forever(t) ==
    /\ tts_engine.threads[t].pc = "while"
    /\ tts_engine' = [tts_engine EXCEPT !.threads[t].pc = "get"]

\* Line 90: while self._running.
ProcessWhile(t) ==
    /\ tts_engine.threads[t].pc = "while"
    /\ tts_engine' = [tts_engine EXCEPT !.threads[t].pc =
                          IF tts_engine._running THEN "get" ELSE "done"]

\* Lines 92-94 and 101-102: get(timeout=1.0) takes the first item; None and
\* an empty queue lead back to line 90.  taken_muted keeps what _muted was
\* when the item was taken.
ProcessGet(t) ==
    /\ tts_engine.threads[t].pc = "get"
    /\ tts_engine' =
           IF tts_engine._queue = <<>> THEN
               [tts_engine EXCEPT !.threads[t].pc = "while"]
           ELSE IF Head(tts_engine._queue).none THEN
               [tts_engine EXCEPT !._queue = Tail(@),
                                  !.threads[t].pc = "while"]
           ELSE
               [tts_engine EXCEPT !._queue = Tail(@),
                                  !.threads[t] =
                                      [pc |-> "if_muted",
                                       item |-> Head(tts_engine._queue),
                                       taken_muted |-> tts_engine._muted]]

\* Lines 96 and 100: if not self._muted; a muted engine drops the item.
ProcessIfMuted(t) ==
    /\ tts_engine.threads[t].pc = "if_muted"
    /\ tts_engine' =
           IF tts_engine._muted
           THEN [tts_engine EXCEPT !.threads[t] = [pc |-> "while",
                                                  item |-> NoneItem,
                                                  taken_muted |-> FALSE]]
           ELSE [tts_engine EXCEPT !.threads[t].pc = "say"]

\* Lines 97-98: self._engine.say(text) and runAndWait() begin.
ProcessSay(t) ==
    /\ tts_engine.threads[t].pc = "say"
    /\ tts_engine' = [tts_engine EXCEPT !.threads[t].pc = "speaking"]

\* Lines 98-105: runAndWait() returns and line 100 is passed, or it raises
\* and line 105 sleeps; both lead back to line 90.
ProcessSpoken(t) ==
    /\ tts_engine.threads[t].pc = "speaking"
    /\ tts_engine' = [tts_engine EXCEPT !.threads[t] = [pc |-> "while",
                                                        item |-> NoneItem,
                                                        taken_muted |-> FALSE]]

\* TTSEngine._process_loop, one step of thread t.
_process_loop(t) ==
    /\ \/ ProcessInit(t)
       \/ ProcessWhile(t)
       \/ ProcessGet(t)
       \/ ProcessIfMuted(t)
       \/ ProcessSay(t)
       \/ ProcessSpoken(t)
    /\ UNCHANGED <<meter, llm_engine, session_state, emotion_bg_engine, call>>

\* The engine and its threads: start(), stop() and its join, set_muted(),
\* say() from one caller, and the steps of the threads, in any order.
InitTts ==
    /\ score = METER_INITIAL_SCORE
    /\ turn_count = 0
    /\ wrong_streak = 0
    /\ history = <<>>
    /\ llm_engine_imported
    /\ session_state = [chat_history |-> <<>>,
                        ocr_text |-> <<>>,
                        subject |-> general,
                        language |-> DEFAULT_LANGUAGE,
                        session_active |-> FALSE,
                        current_emotion |-> "neutral"]
    /\ tts_engine \in {TTSEngine(TRUE), TTSEngine(FALSE)}
    /\ emotion_bg_engine = EmotionEngine(TRUE)
    /\ call = [op |-> "__init__"]

TtsStart ==
    /\ tts_engine.caller = "idle"
    /\ \E t \in DOMAIN tts_engine.threads : tts_engine.threads[t].pc = "none"
    /\ tts_engine' = TTSEngine_start(tts_engine)
    /\ call' = [op |-> "start", made |-> tts_engine'._thread # tts_engine._thread]
    /\ UNCHANGED <<meter, llm_engine, session_state, emotion_bg_engine>>

TtsStop ==
    /\ tts_engine.caller = "idle"
    /\ Len(tts_engine._queue) < MaxQueue
    /\ tts_engine' = TTSEngine_stop(tts_engine)
    /\ call' = [op |-> "stop", returned |-> tts_engine'.caller = "idle"]
    /\ UNCHANGED <<meter, llm_engine, session_state, emotion_bg_engine>>

TtsJoin ==
    /\ TTSEngine_join(tts_engine)
    /\ tts_engine' = [tts_engine EXCEPT !.caller = "idle"]
    /\ call' = [op |-> "stop", returned |-> TRUE]
    /\ UNCHANGED <<meter, llm_engine, session_state, emotion_bg_engine>>

TtsSetMuted ==
    /\ tts_engine.caller = "idle"
    /\ \E muted \in BOOLEAN :
          /\ tts_engine' = set_muted_flag(tts_engine, muted)
          /\ call' = [op |-> "set_muted", muted |-> muted,
                      returned |-> ~muted]
    /\ UNCHANGED <<meter, llm_engine, session_state, emotion_bg_engine>>

TtsClear ==
    /\ tts_engine.caller = "clear"
    /\ tts_engine' = set_muted_clear(tts_engine)
    /\ call' = [op |-> "set_muted", muted |-> TRUE, returned |-> TRUE]
    /\ UNCHANGED <<meter, llm_engine, session_state, emotion_bg_engine>>

TtsSay ==
    /\ tts_engine.caller = "idle"
    /\ Len(tts_engine._queue) < MaxQueue
    /\ \E text \in SpeechTexts :
          /\ tts_engine' = TTSEngine_say(tts_engine, text)
          /\ call' = [op |-> "say", text |-> text]
    /\ UNCHANGED <<meter, llm_engine, session_state, emotion_bg_engine>>

NextTts ==
    \/ TtsStart
    \/ TtsStop
    \/ TtsJoin
    \/ TtsSetMuted
    \/ TtsClear
    \/ TtsSay
    \/ \E t \in 1..MaxThreads : _process_loop(t)

SpecTts == InitTts /\ [][NextTts]_vars

\* The threads are scheduled and their calls return: a step of a thread that
\* can be taken is taken; so are the return of the join (it waits no longer
\* than two seconds) and the loop of set_muted.
FairTts ==
    /\ \A t \in 1..MaxThreads : WF_vars(_process_loop(t))
    /\ WF_vars(TtsJoin)
    /\ WF_vars(TtsClear)

SpecTtsLive == SpecTts /\ FairTts

\* ------------------------------------------------------------------------
\* emotion_engine.py: the webcam, the capture loop and the analyze loop
\* ------------------------------------------------------------------------

\* The frames that cap.read() gives, as (blue, green, red).
Frames == {<<1, 2, 3>>, <<4, 5, 6>>}

\* cv2.cvtColor(frame, cv2.COLOR_BGR2RGB), line 140.
cvtColor(frame) ==
    IF frame = NoFrame THEN NoFrame ELSE <<frame[3], frame[2], frame[1]>>

\* What DeepFace.analyze (lines 157-162) can come to: a result with its
\* dominant emotion (one of them; with actions=['emotion'] every result has
\* one), the ValueError of no face ("Face could not be detected..."),
\* another ValueError, another exception.
AnalyzeOutcomes ==
    {[exc |-> "none", has_dominant |-> TRUE, dominant_emotion |-> "happy"],
     [exc |-> "ValueError", detected |-> FALSE],
     [exc |-> "ValueError", detected |-> TRUE],
     [exc |-> "Exception", detected |-> TRUE]}

\* Lines 164-179: what an outcome of DeepFace.analyze stores as the latest
\* emotion; "None" when it stores nothing.
emotion_of(outcome) ==
    IF outcome.exc = "none"
    THEN IF outcome.has_dominant THEN outcome.dominant_emotion ELSE "neutral"
    ELSE IF outcome.exc = "ValueError" /\ ~outcome.detected THEN "no_face"
    ELSE "None"

\* The next cv2.VideoCapture that start() makes.
new_capture(e) ==
    CHOOSE d \in DOMAIN e.devices :
        /\ e.devices[d] = "none"
        /\ \A c \in 1..(d - 1) : e.devices[c] # "none"

\* EmotionEngine.start (lines 74-107): opened is what cap.isOpened() says,
\* served whether the MJPEG server could be made (lines 99-105).
EmotionEngine_start(e, opened, served) ==
    IF ~e.DeepFace THEN e
    ELSE IF e._running THEN e
    ELSE IF ~opened
    THEN [e EXCEPT !.cap = new_capture(e),
                   !.devices[new_capture(e)] = "closed"]
    ELSE [e EXCEPT !.cap = new_capture(e),
                   !.devices[new_capture(e)] = "open",
                   !._running = TRUE,
                   !._capture_thread = new_capture(e),
                   !._analyze_thread = new_capture(e),
                   !.capture[new_capture(e)].pc = "while",
                   !.analyze[new_capture(e)].pc = "while",
                   !._server = IF served THEN "serving" ELSE @]

\* Line 131: while self._running.
CaptureWhile(d) ==
    /\ emotion_bg_engine.capture[d].pc = "while"
    /\ emotion_bg_engine' =
           [emotion_bg_engine EXCEPT !.capture[d].pc =
                IF emotion_bg_engine._running THEN "read" ELSE "done"]

\* Line 132, the call: self.cap is taken and its read() is entered; with
\* cap None the AttributeError ends the thread.
CaptureRead(d) ==
    /\ emotion_bg_engine.capture[d].pc = "read"
    /\ emotion_bg_engine' =
           IF emotion_bg_engine.cap = 0
           THEN [emotion_bg_engine EXCEPT !.capture[d].pc = "crashed"]
           ELSE [emotion_bg_engine EXCEPT
                     !.capture[d].pc = "reading",
                     !.capture[d].dev = emotion_bg_engine.cap]

\* Lines 132-135, the return: a frame, or none (ret is False, sleep(0.1) and
\* line 131 again).  What a read gives that goes on while the webcam is
\* released is not defined: either.
CaptureReturn(d) ==
    /\ emotion_bg_engine.capture[d].pc = "reading"
    /\ \/ \E frame \in Frames :
             emotion_bg_engine' =
                 [emotion_bg_engine EXCEPT !.capture[d].pc = "store",
                                           !.capture[d].dev = 0,
                                           !.capture[d].frame = frame]
       \/ emotion_bg_engine' =
              [emotion_bg_engine EXCEPT !.capture[d].pc = "while",
                                        !.capture[d].dev = 0]

\* Lines 137-138: the lock is taken and the frame is stored.
CaptureStoreBgr(d) ==
    /\ emotion_bg_engine.capture[d].pc = "store"
    /\ emotion_bg_engine._lock = "free"
    /\ emotion_bg_engine' =
           [emotion_bg_engine EXCEPT
                !._lock = "capture",
                !._latest_frame_bgr = emotion_bg_engine.capture[d].frame,
                !.capture[d].pc = "store_rgb"]

\* Lines 140-141: the frame is stored as RGB and the lock is given back.
CaptureStoreRgb(d) ==
    /\ emotion_bg_engine.capture[d].pc = "store_rgb"
    /\ emotion_bg_engine' =
           [emotion_bg_engine EXCEPT
                !._lock = "free",
                !._latest_frame_rgb =
                    cvtColor(emotion_bg_engine.capture[d].frame),
                !.capture[d].pc = "while",
                !.capture[d].frame = NoFrame]

\* EmotionEngine._capture_loop, one step of thread d.
_capture_loop(d) ==
    /\ \/ CaptureWhile(d)
       \/ CaptureRead(d)
       \/ CaptureReturn(d)
       \/ CaptureStoreBgr(d)
       \/ CaptureStoreRgb(d)
    /\ UNCHANGED <<meter, llm_engine, session_state, tts_engine, call>>

\* Line 145: while self._running.
AnalyzeWhile(d) ==
    /\ emotion_bg_engine.analyze[d].pc = "while"
    /\ emotion_bg_engine' =
           [emotion_bg_engine EXCEPT !.analyze[d].pc =
                IF emotion_bg_engine._running THEN "copy" ELSE "done"]
    /\ UNCHANGED call

\* Lines 146-153: the latest frame is copied under the lock; with none,
\* sleep(0.1) and line 145 again.
AnalyzeCopy(d) ==
    /\ emotion_bg_engine.analyze[d].pc = "copy"
    /\ emotion_bg_engine._lock = "free"
    /\ emotion_bg_engine' =
           IF emotion_bg_engine._latest_frame_bgr = NoFrame
           THEN [emotion_bg_engine EXCEPT !.analyze[d].pc = "while"]
           ELSE [emotion_bg_engine EXCEPT
                     !.analyze[d].pc = "analyzing",
                     !.analyze[d].frame = emotion_bg_engine._latest_frame_bgr]
    /\ UNCHANGED call

\* Lines 157-179: DeepFace.analyze returns or raises; an outcome that stores
\* nothing leads to line 182 (sleep(1.0)) and line 145 again.
AnalyzeReturn(d) ==
    /\ emotion_bg_engine.analyze[d].pc = "analyzing"
    /\ \E outcome \in AnalyzeOutcomes :
          /\ emotion_bg_engine' =
                 IF emotion_of(outcome) = "None"
                 THEN [emotion_bg_engine EXCEPT
                           !.analyze[d].pc = "while",
                           !.analyze[d].frame = NoFrame]
                 ELSE [emotion_bg_engine EXCEPT
                           !.analyze[d].pc = "store",
                           !.analyze[d].frame = NoFrame,
                           !.analyze[d].outcome = outcome]
          /\ UNCHANGED call

\* AnalyzeStore without the lock.
AnalyzeStore_unlocked(d) ==
    /\ emotion_bg_engine.analyze[d].pc = "store"
    /\ emotion_bg_engine' =
           [emotion_bg_engine EXCEPT
                !._latest_emotion =
                    emotion_of(emotion_bg_engine.analyze[d].outcome),
                !.analyzed = TRUE,
                !.analyze[d].pc = "while",
                !.analyze[d].outcome = [exc |-> "None"]]
    /\ UNCHANGED call

\* Lines 169-170 and 174-175: the emotion is stored under the lock; then
\* line 182 (sleep(1.0)) and line 145 again.  analyzed tells that an
\* analysis has stored its emotion.
AnalyzeStore(d) ==
    /\ emotion_bg_engine.analyze[d].pc = "store"
    /\ emotion_bg_engine._lock = "free"
    /\ emotion_bg_engine' =
           [emotion_bg_engine EXCEPT
                !._latest_emotion =
                    emotion_of(emotion_bg_engine.analyze[d].outcome),
                !.analyzed = TRUE,
                !.analyze[d].pc = "while",
                !.analyze[d].outcome = [exc |-> "None"]]
    /\ UNCHANGED call

\* EmotionEngine._analyze_loop, one step of thread d.
_analyze_loop(d) ==
    /\ \/ AnalyzeWhile(d)
       \/ AnalyzeCopy(d)
       \/ AnalyzeReturn(d)
       \/ AnalyzeStore(d)
    /\ UNCHANGED <<meter, llm_engine, session_state, tts_engine>>

\* EmotionEngine.get_latest_emotion (lines 184-187), with the lock.
get_latest_emotion(e) == e._latest_emotion

\* EmotionEngine.get_annotated_frame_bgr, lines 198-203, with the lock: the
\* frame and the emotion that is drawn on it.
get_annotated_frame_bgr(e) == <<e._latest_frame_bgr, e._latest_emotion>>

\* The engine and its threads: start(), stop() line by line, the readers,
\* and the steps of the threads, in any order.
InitEmotion ==
    /\ score = METER_INITIAL_SCORE
    /\ turn_count = 0
    /\ wrong_streak = 0
    /\ history = <<>>
    /\ llm_engine_imported
    /\ session_state = [chat_history |-> <<>>,
                        ocr_text |-> <<>>,
                        subject |-> general,
                        language |-> DEFAULT_LANGUAGE,
                        session_active |-> FALSE,
                        current_emotion |-> "neutral"]
    /\ tts_engine = TTSEngine(TRUE)
    /\ emotion_bg_engine \in {EmotionEngine(TRUE), EmotionEngine(FALSE)}
    /\ call = [op |-> "__init__"]

EmotionStart ==
    /\ emotion_bg_engine.caller = "idle"
    /\ \E d \in DOMAIN emotion_bg_engine.devices :
           emotion_bg_engine.devices[d] = "none"
    /\ \E opened \in BOOLEAN : \E served \in BOOLEAN :
          /\ emotion_bg_engine' =
                 EmotionEngine_start(emotion_bg_engine, opened, served)
          /\ call' = [op |-> "start"]
    /\ UNCHANGED <<meter, llm_engine, session_state, tts_engine>>

\* EmotionEngine.stop, lines 111-115: the flag and the server.
EmotionStop ==
    /\ emotion_bg_engine.caller = "idle"
    /\ emotion_bg_engine' =
           [emotion_bg_engine EXCEPT
                !._running = FALSE,
                !._server = IF @ = "None" THEN @ ELSE "closed",
                !.caller = "join_capture"]
    /\ call' = [op |-> "stop"]
    /\ UNCHANGED <<meter, llm_engine, session_state, tts_engine>>

\* Lines 117-118: join(timeout=2.0) of the capture thread returns when there
\* is no thread, when the thread has ended, or after two seconds while the
\* thread is in cap.read(), the one call of the loop that can last longer
\* (sleep(0.1) and sleep(0.01) cannot).
EmotionJoinCapture ==
    /\ emotion_bg_engine.caller = "join_capture"
    /\ IF emotion_bg_engine._capture_thread = 0 THEN TRUE
       ELSE emotion_bg_engine.capture[emotion_bg_engine._capture_thread].pc
                \in {"done", "crashed", "reading"}
    /\ emotion_bg_engine' = [emotion_bg_engine EXCEPT !.caller = "join_analyze"]
    /\ call' = [op |-> "stop"]
    /\ UNCHANGED <<meter, llm_engine, session_state, tts_engine>>

\* Lines 119-122: join(timeout=2.0) of the analyze thread returns when there
\* is no thread, when the thread has ended, or after two seconds while the
\* thread is in DeepFace.analyze.
EmotionJoinAnalyze ==
    /\ emotion_bg_engine.caller = "join_analyze"
    /\ IF emotion_bg_engine._analyze_thread = 0 THEN TRUE
       ELSE emotion_bg_engine.analyze[emotion_bg_engine._analyze_thread].pc
                \in {"done", "analyzing"}
    /\ emotion_bg_engine' = [emotion_bg_engine EXCEPT !.caller = "release"]
    /\ call' = [op |-> "stop"]
    /\ UNCHANGED <<meter, llm_engine, session_state, tts_engine>>

\* Lines 124-127: the webcam is released and cap is None.
EmotionRelease ==
    /\ emotion_bg_engine.caller = "release"
    /\ emotion_bg_engine' =
           IF emotion_bg_engine.cap # 0
           THEN [emotion_bg_engine EXCEPT
                     !.devices[emotion_bg_engine.cap] = "released",
                     !.cap = 0,
                     !.caller = "idle"]
           ELSE [emotion_bg_engine EXCEPT !.caller = "idle"]
    /\ call' = [op |-> "stop"]
    /\ UNCHANGED <<meter, llm_engine, session_state, tts_engine>>

GetLatestEmotion ==
    /\ emotion_bg_engine.caller = "idle"
    /\ emotion_bg_engine._lock = "free"
    /\ call' = [op |-> "get_latest_emotion",
                ret |-> get_latest_emotion(emotion_bg_engine)]
    /\ UNCHANGED <<meter, llm_engine, app>>

GetAnnotatedFrame ==
    /\ emotion_bg_engine._running
    /\ emotion_bg_engine._server = "serving"
    /\ emotion_bg_engine._lock = "free"
    /\ call' = [op |-> "get_annotated_frame_bgr",
                ret |-> get_annotated_frame_bgr(emotion_bg_engine)]
    /\ UNCHANGED <<meter, llm_engine, app>>

NextEmotion ==
    \/ EmotionStart
    \/ EmotionStop
    \/ EmotionJoinCapture
    \/ EmotionJoinAnalyze
    \/ EmotionRelease
    \/ GetLatestEmotion
    \/ GetAnnotatedFrame
    \/ \E d \in 1..MaxCaptures : _capture_loop(d)
    \/ \E d \in 1..MaxCaptures : _analyze_loop(d)

SpecEmotion == InitEmotion /\ [][NextEmotion]_vars

\* ------------------------------------------------------------------------
\* app.py: the handlers of a tutoring session
\* ------------------------------------------------------------------------

\* What ocr_engine.extract_text and detect_subject come to (lines 518-522):
\* no text, a text with no keyword of a subject, a text with 'force'.
OcrResults ==
    {[text |-> <<" ">>, subject |-> general],
     [text |-> <<"2", "+", "2">>, subject |-> general],
     [text |-> <<"f", "o", "r", "c", "e">>,
      subject |-> <<"p", "h", "y", "s", "i", "c", "s">>]}

\* build_intro_message, by the values its template is filled with.
build_intro_message(ocr_text, language) ==
    [problem |-> ocr_text, in_language |-> language]

\* llm_engine._DEMO_RESPONSES[0], by its first words (lines 111-114).
DemoResponse == <<"T", "h", "a", "t", " ", "i", "s">>

\* A reply of the installed model, stripped (line 104).
LlmReply == <<"*", "H", "i", "*">>

\* What llm_engine.generate comes to in a handler.
GenerateOutcomes == {"demo", "return", "raise"}

\* The parameters of UnderstandingMeter.update that a call can name
\* (understanding_meter.py, lines 105-110).
update_parameters == {"student_reply", "concept", "use_llm"}

\* The keyword arguments of the call of update in the submit handler
\* (app.py, lines 637-642).
submit_keywords == {"student_reply", "concept", "use_llm", "emotion"}

\* Python's binding of the keyword arguments of a call: a keyword that names
\* no parameter of a function without **kwargs is a TypeError.
bind(keywords, parameters) ==
    IF keywords \subseteq parameters THEN "bound" ELSE "TypeError"

\* Lines 381-402, the sidebar of every run of the script: the language, the
\* voice toggle, and in a session the latest emotion.
Sidebar ==
    /\ tts_engine.caller = "idle"
    /\ \E selected_lang \in Languages : \E enable_audio \in BOOLEAN :
          /\ session_state' =
                 [session_state EXCEPT
                      !.language = selected_lang,
                      !.current_emotion =
                          IF session_state.session_active
                          THEN get_latest_emotion(emotion_bg_engine)
                          ELSE @]
          /\ tts_engine' = TTSEngine_set_muted(tts_engine, ~enable_audio)
          /\ call' = [op |-> "sidebar", selected_lang |-> selected_lang,
                      enable_audio |-> enable_audio]
    /\ UNCHANGED <<meter, llm_engine, emotion_bg_engine>>

\* Lines 516-559 with a text: the session, a new meter, reset_demo(), the
\* emotion tracker, the first question of the tutor, its voice, and the two
\* first entries of chat_history.  When generate raises, the handler ends at
\* line 543.
StartWithText(ocr, opened, served, outcome) ==
    /\ strip(ocr.text) # <<>>
    /\ emotion_bg_engine._running
         \/ \E d \in DOMAIN emotion_bg_engine.devices :
                emotion_bg_engine.devices[d] = "none"
    /\ score' = METER_INITIAL_SCORE
    /\ turn_count' = 0
    /\ wrong_streak' = 0
    /\ history' = <<>>
    /\ emotion_bg_engine' =
           EmotionEngine_start(emotion_bg_engine, opened, served)
    /\ _demo_index' = IF outcome = "demo" THEN 1 ELSE 0
    /\ _llm_instance' \in IF outcome = "demo" THEN {_llm_instance}
                          ELSE IF outcome = "return" THEN {"Llama"}
                          ELSE {_llm_instance, "Llama"}
    /\ IF outcome = "raise"
       THEN /\ session_state' = [session_state EXCEPT
                                     !.ocr_text = ocr.text,
                                     !.subject = ocr.subject,
                                     !.session_active = TRUE,
                                     !.chat_history = <<>>]
            /\ UNCHANGED tts_engine
            /\ call' = [op |-> "start_tutoring", exc |-> "RuntimeError",
                        warning |-> FALSE]
       ELSE /\ session_state' =
                   [session_state EXCEPT
                        !.ocr_text = ocr.text,
                        !.subject = ocr.subject,
                        !.session_active = TRUE,
                        !.chat_history =
                            <<[role |-> "user",
                               content |-> build_intro_message(
                                               ocr.text,
                                               session_state.language)],
                              [role |-> "assistant",
                               content |-> IF outcome = "demo"
                                           THEN DemoResponse
                                           ELSE LlmReply]>>]
            /\ tts_engine' =
                   TTSEngine_say(TTSEngine_start(tts_engine),
                                 IF outcome = "demo" THEN DemoResponse
                                 ELSE LlmReply)
            /\ call' = [op |-> "start_tutoring", exc |-> "none",
                        warning |-> FALSE]

\* Lines 516-561, "Extract & Start Tutoring": without a text a warning, with
\* one the start of the session.
StartTutoring ==
    /\ tts_engine.caller = "idle"
    /\ Len(tts_engine._queue) < MaxQueue
    /\ \E t \in DOMAIN tts_engine.threads : tts_engine.threads[t].pc = "none"
    /\ \E ocr \in OcrResults :
          \/ /\ strip(ocr.text) = <<>>
             /\ call' = [op |-> "start_tutoring", exc |-> "none",
                         warning |-> TRUE]
             /\ UNCHANGED <<meter, llm_engine, app>>
          \/ \E opened \in BOOLEAN : \E served \in BOOLEAN :
             \E outcome \in GenerateOutcomes :
                 /\ _llm_instance = "None" \/ outcome # "demo"
                 /\ StartWithText(ocr, opened, served, outcome)

\* Lines 637-678 when the call of update is bound: the update, the prompt
\* of the next question, the reply, its voice, and the two entries of
\* chat_history.
SubmitBound(r, outcome) ==
    /\ update_scored(r, FALSE, 0, Scored.heuristic[r])
    /\ _demo_index' = IF outcome = "demo" THEN _demo_index + 1 ELSE _demo_index
    /\ _llm_instance' = IF outcome = "demo" THEN _llm_instance ELSE "Llama"
    /\ tts_engine' =
           TTSEngine_say(TTSEngine_start(tts_engine),
                         IF outcome = "demo" THEN DemoResponse ELSE LlmReply)
    /\ session_state' =
           [session_state EXCEPT
                !.chat_history =
                    @ \o <<[role |-> "user", content |-> strip(Replies[r]),
                            display |-> TRUE],
                           [role |-> "assistant",
                            content |-> IF outcome = "demo" THEN DemoResponse
                                        ELSE LlmReply]>>]
    /\ UNCHANGED emotion_bg_engine

\* Lines 637-642 when the call of update is not bound: the TypeError ends
\* the handler before update() is entered.
SubmitTypeError(r) ==
    /\ call' = [op |-> "submit", reply |-> r, exc |-> "TypeError"]
    /\ UNCHANGED <<meter, llm_engine, app>>

\* Lines 629-678, the submit handler on a student answer that is not empty
\* (line 631 disables the button on an empty one).
Submit ==
    /\ session_state.session_active
    /\ turn_count < MaxTurns
    /\ \E r \in TutorReplies :
          /\ strip(Replies[r]) # <<>>
          /\ IF bind(submit_keywords, update_parameters) = "TypeError"
             THEN SubmitTypeError(r)
             ELSE \E outcome \in {"demo", "return"} : SubmitBound(r, outcome)

NextApp == Sidebar \/ StartTutoring \/ Submit

SpecApp == Init /\ [][NextApp]_vars

\* Long runs of one verdict: MaxPrefix updates of any verdict, then up to
\* MaxRun updates whose verdicts are all the same, and reset().
RunUpdate ==
    /\ turn_count < MaxPrefix + MaxRun
    /\ \E r \in TutorReplies :
          /\ \A i \in (MaxPrefix + 1)..Len(history) :
                history[i].verdict = Scored.heuristic[r].val[1]
          /\ update(r, FALSE, 0)
    /\ UNCHANGED app

NextRun == RunUpdate \/ Reset

SpecRun == Init /\ [][NextRun]_vars

\* ------------------------------------------------------------------------
\* Properties
\* ------------------------------------------------------------------------

\* C1: in every state reached by update() and reset(), the score is in
\* 0..100, and so is the score of every record of history.
C1_ScoreInRange ==
    /\ score \in 0..100
    /\ \A i \in 1..Len(history) : history[i].score \in 0..100

\* An update at score 0 with a negative delta: the clamp at 0 has acted.
C1_ClampedAtZero ==
    /\ call.op = "update"
    /\ Len(history) >= 2
    /\ history[Len(history) - 1].score + call.ret.delta < 0
    /\ score = 0

\* C2: an update() with verdict incorrect adds exactly 1 to wrong_streak; an
\* update() with verdict correct or partial sets it to 0.
C2_StreakRule ==
    [][turn_count' = turn_count + 1 =>
          /\ call'.op = "update"
          /\ call'.exc = "none"
          /\ call'.ret.verdict = "incorrect" => wrong_streak' = wrong_streak + 1
          /\ call'.ret.verdict \in {"correct", "partial"} => wrong_streak' = 0]_vars

\* A streak of two that a partial verdict has just set back to 0.
C2_StreakReset ==
    /\ call.op = "update"
    /\ call.ret.verdict = "partial"
    /\ wrong_streak = 0
    /\ Len(history) >= 3
    /\ history[Len(history) - 1].verdict = "incorrect"
    /\ history[Len(history) - 2].verdict = "incorrect"

\* C3: on the heuristic path the verdict and the delta are those of the
\* counts of matched patterns: pos >= 2 and neg = 0 gives correct; otherwise
\* pos >= 1 or neg = 0 gives partial; otherwise incorrect.
C3_HeuristicMapping ==
    (call.op = "update" /\ ~call.use_llm) =>
        LET text == lower(Replies[call.reply])
            pos == hits(POSITIVE_SIGNALS, text)
            neg == hits(NEGATIVE_SIGNALS, text)
            first == pos >= 2 /\ neg = 0
            second == pos >= 1 \/ neg = 0
            got == <<call.ret.verdict, call.ret.delta>>
        IN  /\ pos \in 0..4
            /\ neg \in 0..3
            /\ call.exc = "none"
            /\ first => got = <<"correct", METER_STEP_CORRECT>>
            /\ (~first /\ second) => got = <<"partial", METER_STEP_PARTIAL>>
            /\ (~first /\ ~second) => got = <<"incorrect", METER_STEP_INCORRECT>>

\* A reply with two positive signals and a negative one: the first case does
\* not apply, the second does.
C3_SecondCaseWins ==
    /\ call.op = "update"
    /\ ~call.use_llm
    /\ hits(POSITIVE_SIGNALS, lower(Replies[call.reply])) >= 2
    /\ hits(NEGATIVE_SIGNALS, lower(Replies[call.reply])) >= 1
    /\ call.ret.verdict = "partial"

\* C4 as the specification states it: a reply that matches no positive and
\* no negative pattern gets the verdict incorrect on the heuristic path.
C4_NoSignalIsIncorrect ==
    (/\ call.op = "update"
     /\ ~call.use_llm
     /\ hits(POSITIVE_SIGNALS, lower(Replies[call.reply])) = 0
     /\ hits(NEGATIVE_SIGNALS, lower(Replies[call.reply])) = 0)
    => call.ret.verdict = "incorrect"

\* C4, amended: a reply that matches no positive and no negative pattern
\* gets the verdict partial on the heuristic path: the score rises by the
\* partial step (clamped) and wrong_streak becomes 0.
C4_NoSignalIsPartial ==
    (/\ call.op = "update"
     /\ ~call.use_llm
     /\ hits(POSITIVE_SIGNALS, lower(Replies[call.reply])) = 0
     /\ hits(NEGATIVE_SIGNALS, lower(Replies[call.reply])) = 0)
    => /\ call.exc = "none"
       /\ call.ret.verdict = "partial"
       /\ call.ret.delta = METER_STEP_PARTIAL
       /\ wrong_streak = 0
       /\ LET before == IF Len(history) = 1 THEN METER_INITIAL_SCORE
                        ELSE history[Len(history) - 1].score
          IN  score = IF before + METER_STEP_PARTIAL > 100 THEN 100
                      ELSE before + METER_STEP_PARTIAL

\* The empty reply, scored on the heuristic path.
C4_EmptyReplyScored ==
    /\ call.op = "update"
    /\ ~call.use_llm
    /\ Replies[call.reply] = <<>>
    /\ call.ret.verdict = "partial"

\* C5: the mode of build_system_prompt is hint if wrong_answer_count >=
\* HINT_THRESHOLD or the emotion is sad, angry or fear; else scaffolded if
\* score < 30; else socratic if score < 60; else deep.
C5_ModePolicy ==
    call.op = "build_system_prompt" =>
        LET s == call.understanding_score
            w == call.wrong_answer_count
            e == call.emotion
            escalate == w >= HINT_THRESHOLD \/ e = "sad" \/ e = "angry" \/ e = "fear"
        IN  /\ call.mode \in {hint, scaffolded, socratic, deep}
            /\ escalate => call.mode = hint
            /\ (~escalate /\ s < 30) => call.mode = scaffolded
            /\ (~escalate /\ s >= 30 /\ s < 60) => call.mode = socratic
            /\ (~escalate /\ s >= 60) => call.mode = deep
            /\ (s = 20 /\ w = 0 /\ e = "neutral") => call.mode = scaffolded

\* The prompt of score 20, no wrong answer, a neutral face.
C5_ScaffoldedExample ==
    /\ call.op = "build_system_prompt"
    /\ call.understanding_score = 20
    /\ call.wrong_answer_count = 0
    /\ call.emotion = "neutral"
    /\ call.mode = scaffolded

\* C6: whatever the score, a wrong_answer_count of HINT_THRESHOLD or more,
\* or an emotion of sad, angry or fear, gives the mode hint, and the prompt
\* names that mode.
C6_HintOverridesScore ==
    (/\ call.op = "build_system_prompt"
     /\ \/ call.wrong_answer_count >= HINT_THRESHOLD
        \/ call.emotion \in {"sad", "angry", "fear"})
    => /\ call.mode = hint
       /\ call.mode \notin {scaffolded, socratic, deep}
       /\ call.ret.teaching_mode = <<"H", "I", "N", "T">>

\* The prompt of score 70, three wrong answers, a neutral face.
C6_StreakExample ==
    /\ call.op = "build_system_prompt"
    /\ call.understanding_score = 70
    /\ call.wrong_answer_count = 3
    /\ call.emotion = "neutral"
    /\ call.mode = hint

\* C7: when update() is called with use_llm and the evaluator call raises,
\* or its reply is no JSON, or the JSON is no object, or the score does not
\* convert to an integer, then update() raises nothing and the verdict and
\* the delta are those of the heuristic scorer for the reply.
C7_FallbackToHeuristic ==
    (/\ call.op = "update"
     /\ call.use_llm
     /\ LET o == LlmOutcomes[call.llm]
        IN  \/ o.call = "raise"
            \/ o.json = "invalid"
            \/ o.data.t # "dict"
            \/ (o.data.has_score /\ int(o.data.score).exc # "none"))
    => /\ call.exc = "none"
       /\ <<call.ret.verdict, call.ret.delta>>
              = _heuristic_score(Replies[call.reply])

\* An evaluator score that int() rejects, and the heuristic verdict correct.
C7_BadScoreFallsBack ==
    /\ call.op = "update"
    /\ call.use_llm
    /\ LlmOutcomes[call.llm].call = "return"
    /\ LlmOutcomes[call.llm].json = "value"
    /\ LlmOutcomes[call.llm].data.t = "dict"
    /\ LlmOutcomes[call.llm].data.has_score
    /\ int(LlmOutcomes[call.llm].data.score).exc = "ValueError"
    /\ call.exc = "none"
    /\ call.ret.verdict = "correct"

\* C8 as the specification states it: when the evaluator's JSON object has
\* no score, the verdict and the delta are those of the heuristic scorer.
C8_MissingScoreFallsBack ==
    (/\ call.op = "update"
     /\ call.use_llm
     /\ LlmOutcomes[call.llm].call = "return"
     /\ LlmOutcomes[call.llm].json = "value"
     /\ LlmOutcomes[call.llm].data.t = "dict"
     /\ ~LlmOutcomes[call.llm].data.has_score)
    => /\ call.exc = "none"
       /\ <<call.ret.verdict, call.ret.delta>>
              = _heuristic_score(Replies[call.reply])

\* C8, amended: when the evaluator's JSON object has no score, the score
\* counts as 50: update() raises nothing and the verdict is partial with the
\* partial step, whatever the heuristic scorer gives for the reply.
C8_MissingScoreIsPartial ==
    (/\ call.op = "update"
     /\ call.use_llm
     /\ LlmOutcomes[call.llm].call = "return"
     /\ LlmOutcomes[call.llm].json = "value"
     /\ LlmOutcomes[call.llm].data.t = "dict"
     /\ ~LlmOutcomes[call.llm].data.has_score)
    => /\ call.exc = "none"
       /\ call.ret.verdict = "partial"
       /\ call.ret.delta = METER_STEP_PARTIAL

\* An object without a score for a reply the heuristic scorer calls
\* incorrect.
C8_MissingScoreScored ==
    /\ call.op = "update"
    /\ call.use_llm
    /\ LlmOutcomes[call.llm].call = "return"
    /\ LlmOutcomes[call.llm].json = "value"
    /\ LlmOutcomes[call.llm].data.t = "dict"
    /\ ~LlmOutcomes[call.llm].data.has_score
    /\ _heuristic_score(Replies[call.reply])[1] = "incorrect"
    /\ call.ret.verdict = "partial"

C10_ClampedSum ==
    /\ \A i \in 1..Len(history) :
          LET before == IF i = 1 THEN METER_INITIAL_SCORE
                        ELSE history[i - 1].score
              rec == history[i]
              sum == before + rec.delta
          IN  /\ rec.verdict = "correct" => rec.delta = METER_STEP_CORRECT
              /\ rec.verdict = "partial" => rec.delta = METER_STEP_PARTIAL
              /\ rec.verdict = "incorrect" => rec.delta = METER_STEP_INCORRECT
              /\ rec.score = IF sum < 0 THEN 0 ELSE IF sum > 100 THEN 100 ELSE sum
              /\ rec.score - before # rec.delta => rec.score \in {0, 100}
    /\ score = IF history = <<>> THEN METER_INITIAL_SCORE
               ELSE history[Len(history)].score

\* An update above score 85 with the correct step: the clamp at 100 has
\* acted and the record keeps the step as its delta.
C10_ClampedAtHundred ==
    /\ call.op = "update"
    /\ Len(history) >= 2
    /\ history[Len(history) - 1].score + call.ret.delta > 100
    /\ call.ret.delta = METER_STEP_CORRECT
    /\ score = 100

\* C11: for every score in 0..100 the badge is Expert from 85, Proficient
\* from 65 to 84, Developing from 45 to 64, Beginner from 25 to 44 and Needs
\* Help under 25; and every record of history holds the badge of the score
\* it holds.
C11_BadgeThresholds ==
    LET banded(s, b) ==
            /\ s >= 85 => b = "Expert"
            /\ (65 <= s /\ s < 85) => b = "Proficient"
            /\ (45 <= s /\ s < 65) => b = "Developing"
            /\ (25 <= s /\ s < 45) => b = "Beginner"
            /\ s < 25 => b = "Needs Help"
    IN  /\ call.op = "_badge" =>
              /\ banded(call.a, call.badge_a)
              /\ banded(call.b, call.badge_b)
        /\ \A i \in 1..Len(history) :
              banded(history[i].score, history[i].badge)

\* The badge of 65, the least score of Proficient, beside the badge of 64.
C11_AtThreshold ==
    /\ call.op = "_badge"
    /\ call.a = 64
    /\ call.badge_a = "Developing"
    /\ call.b = 65
    /\ call.badge_b = "Proficient"

\* C12: under the order Needs Help < Beginner < Developing < Proficient <
\* Expert, the badge of a score is never better than the badge of a greater
\* score, for any two scores in 0..100.
C12_BadgeMonotonic ==
    LET tier(b) ==
            CASE b = "Needs Help" -> 0
              [] b = "Beginner" -> 1
              [] b = "Developing" -> 2
              [] b = "Proficient" -> 3
              [] b = "Expert" -> 4
              [] OTHER -> -1
    IN  call.op = "_badge" =>
            /\ tier(call.badge_a) \in 0..4
            /\ tier(call.badge_b) \in 0..4
            /\ call.a < call.b => tier(call.badge_a) <= tier(call.badge_b)
            /\ call.a = call.b => call.badge_a = call.badge_b

\* Two scores of different bands, the lesser with the lesser badge.
C12_StrictlyBetter ==
    /\ call.op = "_badge"
    /\ call.a = 50
    /\ call.b = 70
    /\ call.badge_a = "Developing"
    /\ call.badge_b = "Proficient"

\* C13: every update() adds exactly 1 to turn_count and appends exactly one
\* record, the one it returns, at the end of history, on the LLM path and
\* its fallback too; so in every state history has turn_count records and
\* the i-th record has turn i.
C13_OneRecordPerUpdate ==
    /\ [](/\ Len(history) = turn_count
          /\ \A i \in 1..Len(history) : history[i].turn = i)
    /\ [][(call'.op = "update" /\ vars' # vars) =>
              /\ call'.exc = "none"
              /\ turn_count' = turn_count + 1
              /\ Len(history') = Len(history) + 1
              /\ history' = Append(history, call'.ret)]_vars

\* The third update of a session, on the LLM path with the evaluator
\* raising: the heuristic scorer's record is the third, with turn 3.
C13_ThirdTurnAfterFallback ==
    /\ call.op = "update"
    /\ call.use_llm
    /\ LlmOutcomes[call.llm].call = "raise"
    /\ turn_count = 3
    /\ Len(history) = 3
    /\ history[3].turn = 3
    /\ history[3] = call.ret

\* C14: an update() leaves every record already in history as it is, at its
\* position; a step that removes or changes a record is a reset(), and a
\* reset() leaves no record.
C14_RecordsImmutable ==
    [][/\ call'.op = "update" =>
             /\ Len(history') >= Len(history)
             /\ \A i \in 1..Len(history) : history'[i] = history[i]
       /\ (\E i \in 1..Len(history) :
               i > Len(history') \/ history'[i] # history[i])
          => (call'.op = "reset" /\ history' = <<>>)
       /\ call'.op = "reset" => history' = <<>>]_vars

\* A third record whose score and badge differ from the first record's,
\* which is still the record of the first update.
C14_OlderRecordKept ==
    /\ call.op = "update"
    /\ Len(history) = 3
    /\ history[1].score = 45
    /\ history[1].badge = "Developing"
    /\ history[3].score = 75
    /\ history[3].badge = "Proficient"

\* C15: after reset(), whatever came before, the meter's fields are those of
\* a new meter (score 30, turn_count 0, wrong_streak 0, no history); and the
\* record of an update() is a function of the score and the turn before it,
\* the reply and the evaluator's outcome, starting from 30 and 0 after
\* reset() as after construction, so that the same updates after reset()
\* and on a new meter give the same records.
C15_ResetIsFresh ==
    /\ call.op = "reset" =>
          /\ score = METER_INITIAL_SCORE
          /\ score = 30
          /\ turn_count = 0
          /\ wrong_streak = 0
          /\ history = <<>>
    /\ call.op = "update" =>
          LET n == Len(history)
              score_before == IF n = 1 THEN 30 ELSE history[n - 1].score
              turn_before == IF n = 1 THEN 0 ELSE history[n - 1].turn
              scored == IF call.use_llm
                        THEN Scored.llm[call.reply][call.llm]
                        ELSE Scored.heuristic[call.reply]
              verdict == scored.val[1]
              delta == scored.val[2]
              sum == score_before + delta
              clamped == IF sum < 0 THEN 0 ELSE IF sum > 100 THEN 100
                         ELSE sum
              record == [turn |-> turn_before + 1,
                         score |-> clamped,
                         delta |-> delta,
                         verdict |-> verdict,
                         badge |-> _badge(clamped)]
          IN  /\ call.exc = "none"
              /\ n >= 1
              /\ call.ret = record
              /\ history[n] = record
              /\ score = clamped
              /\ turn_count = turn_before + 1
              /\ wrong_streak = 0 <=> verdict # "incorrect"

\* A reset() that found a session of three turns or more.
C15_ResetAfterUpdates ==
    /\ call.op = "reset"
    /\ call.turn_count >= 3
    /\ meter = <<METER_INITIAL_SCORE, 0, 0, <<>>>>

\* C16: a call of build_system_prompt leaves score, turn_count, wrong_streak
\* and history as they are, and its mode is the policy's mode of the
\* arguments of that call, whatever the mode of the call before was.
C16_PromptHasNoEffect ==
    [][(call'.op = "build_system_prompt" /\ vars' # vars) =>
          LET s == call'.understanding_score
              w == call'.wrong_answer_count
              e == call'.emotion
              policy == IF w >= HINT_THRESHOLD \/ e \in {"sad", "angry", "fear"}
                        THEN hint
                        ELSE IF s < 30 THEN scaffolded
                        ELSE IF s < 60 THEN socratic
                        ELSE deep
          IN  /\ score' = score
              /\ turn_count' = turn_count
              /\ wrong_streak' = wrong_streak
              /\ history' = history
              /\ s = score
              /\ w = wrong_streak
              /\ call'.mode = policy
              /\ call'.ret.teaching_mode = upper(policy)]_vars

\* A prompt in socratic mode in a session whose first two verdicts were
\* incorrect: the prompt after the second was in hint mode.
C16_ModeRecomputed ==
    /\ call.op = "build_system_prompt"
    /\ call.emotion = "neutral"
    /\ call.mode = socratic
    /\ Len(history) >= 3
    /\ history[1].verdict = "incorrect"
    /\ history[2].verdict = "incorrect"
    /\ wrong_streak = 0

\* C17: an update() changes no state but the fields of its meter: the
\* globals of llm_engine, the demo-response counter among them, are after
\* the call what they were before it, on the heuristic and on the LLM path.
C17_OnlyOwnFields ==
    [][(call'.op = "update" /\ vars' # vars) =>
          /\ _demo_index' = _demo_index
          /\ _llm_instance' = _llm_instance]_vars

\* C18: the reply of the specification's first example matches at least two
\* positive patterns and no negative pattern; an update() with it on the
\* heuristic path has the verdict correct, the delta METER_STEP_CORRECT and
\* a score that many points higher, 100 at most.
C18_ExampleIsCorrect ==
    [][LET example == <<"Y", "e", "s", " ", "e", "x", "a", "c", "t", "l", "y",
                       "!", " ", "F", " ", "=", " ", "m", "a", ",", " ", "m",
                       "a", "s", "s", " ", "i", "s", " ", "5", "k", "g", ",",
                       " ", "a", "c", "c", "e", "l", "e", "r", "a", "t", "i",
                       "o", "n", " ", "2", " ", "m", "/", "s", "²">>
       IN  (/\ call'.op = "update"
            /\ vars' # vars
            /\ ~call'.use_llm
            /\ Replies[call'.reply] = example)
           => /\ SignalHits[call'.reply].pos_hits >= 2
              /\ SignalHits[call'.reply].neg_hits = 0
              /\ call'.exc = "none"
              /\ call'.ret.verdict = "correct"
              /\ call'.ret.delta = METER_STEP_CORRECT
              /\ score' = IF score + METER_STEP_CORRECT > 100 THEN 100
                          ELSE score + METER_STEP_CORRECT
              /\ call'.ret.score = score']_vars

\* The example reply at a score above 85: the score is 100, less than 15
\* more than before.
C18_ExampleClamped ==
    /\ call.op = "update"
    /\ ~call.use_llm
    /\ call.reply = 22
    /\ Len(history) >= 2
    /\ history[Len(history) - 1].score = 90
    /\ call.ret.verdict = "correct"
    /\ score = 100

\* C19: the reply of the specification's second example matches a negative
\* pattern and no positive pattern; an update() with it on the heuristic
\* path has the verdict incorrect, the delta METER_STEP_INCORRECT, a score
\* 5 lower, 0 at least, and a wrong_streak one greater.
C19_ExampleIsIncorrect ==
    [][LET example == <<"I", " ", "d", "o", "n", "'", "t", " ", "k", "n", "o",
                       "w", ",", " ", "I", "'", "m", " ", "c", "o", "n", "f",
                       "u", "s", "e", "d">>
       IN  (/\ call'.op = "update"
            /\ vars' # vars
            /\ ~call'.use_llm
            /\ Replies[call'.reply] = example)
           => /\ SignalHits[call'.reply].neg_hits >= 1
              /\ SignalHits[call'.reply].pos_hits = 0
              /\ call'.exc = "none"
              /\ call'.ret.verdict = "incorrect"
              /\ call'.ret.delta = METER_STEP_INCORRECT
              /\ call'.ret.delta = -5
              /\ score' = IF score - 5 < 0 THEN 0 ELSE score - 5
              /\ call'.ret.score = score'
              /\ wrong_streak' = wrong_streak + 1]_vars

\* The example reply for the third time in a row.
C19_ThirdInARow ==
    /\ call.op = "update"
    /\ ~call.use_llm
    /\ call.reply = 23
    /\ call.ret.verdict = "incorrect"
    /\ wrong_streak = 3
    /\ score = 15

C21_SubmitCompletes ==
    [][Submit =>
          LET chat == session_state.chat_history
              chat_after == session_state'.chat_history
          IN  /\ call'.exc = "none"
              /\ turn_count' = turn_count + 1
              /\ Len(history') = Len(history) + 1
              /\ Len(chat_after) = Len(chat) + 2
              /\ SubSeq(chat_after, 1, Len(chat)) = chat
              /\ chat_after[Len(chat) + 1].role = "user"
              /\ chat_after[Len(chat) + 2].role = "assistant"]_vars

\* C22: wrong_streak is the length of the longest suffix of history whose
\* verdicts are all incorrect; so it lies in 0..turn_count, and it is 0
\* exactly when history is empty or its last verdict is not incorrect.
C22_StreakIsSuffix ==
    LET n == Len(history)
        all_incorrect(k) ==
            \A i \in (n - k + 1)..n : history[i].verdict = "incorrect"
    IN  /\ wrong_streak \in 0..n
        /\ all_incorrect(wrong_streak)
        /\ wrong_streak < n =>
               history[n - wrong_streak].verdict # "incorrect"
        /\ wrong_streak <= turn_count
        /\ wrong_streak = 0 <=>
               (n = 0 \/ history[n].verdict # "incorrect")

\* A streak of two that began after a verdict that is not incorrect, in a
\* session where an update has raised nothing and left no record out.
C22_StreakAfterOther ==
    /\ wrong_streak = 2
    /\ Len(history) = 4
    /\ history[2].verdict # "incorrect"
    /\ history[1].verdict = "incorrect"

\* C23: on the LLM path, when the reply of the evaluator is a JSON object
\* whose score is an integer s, update() raises nothing and the verdict and
\* the delta are those of s alone, whatever the student's reply and
\* whether or not s is in 0..100: correct from 70, partial from 40 to 69,
\* incorrect under 40.
C23_ScoreAloneDecides ==
    (/\ call.op = "update"
     /\ call.use_llm
     /\ LET o == LlmOutcomes[call.llm]
        IN  /\ o.call = "return"
            /\ o.json = "value"
            /\ o.data.t = "dict"
            /\ o.data.has_score
            /\ o.data.score.t = "int")
    => LET s == LlmOutcomes[call.llm].data.score.v
       IN  /\ call.exc = "none"
           /\ s >= 70 =>
                  /\ call.ret.verdict = "correct"
                  /\ call.ret.delta = METER_STEP_CORRECT
           /\ (40 <= s /\ s < 70) =>
                  /\ call.ret.verdict = "partial"
                  /\ call.ret.delta = METER_STEP_PARTIAL
           /\ s < 40 =>
                  /\ call.ret.verdict = "incorrect"
                  /\ call.ret.delta = METER_STEP_INCORRECT

\* A score over 100 for a reply that the heuristic scorer calls incorrect.
C23_HighScoreForConfusedReply ==
    /\ call.op = "update"
    /\ call.use_llm
    /\ call.reply = 23
    /\ Scored.heuristic[23].val[1] = "incorrect"
    /\ call.llm = 25
    /\ LlmOutcomes[25].data.score.v = 150
    /\ call.ret.verdict = "correct"

\* C24: at score 100 a correct or partial verdict leaves the score at 100,
\* at score 0 an incorrect verdict leaves it at 0; 7 correct verdicts in a
\* row bring the score to 100 and 20 incorrect verdicts in a row bring it
\* to 0, from whatever score; the score never falls on a correct or partial
\* verdict and never rises on an incorrect one.
C24_Saturates ==
    \A i \in 1..Len(history) :
        LET before == IF i = 1 THEN METER_INITIAL_SCORE
                      ELSE history[i - 1].score
            run(k, verdict) ==
                /\ i >= k
                /\ \A j \in (i - k + 1)..i : history[j].verdict = verdict
        IN  /\ history[i].verdict \in {"correct", "partial"} =>
                   /\ history[i].score >= before
                   /\ before = 100 => history[i].score = 100
            /\ history[i].verdict = "incorrect" =>
                   /\ history[i].score <= before
                   /\ before = 0 => history[i].score = 0
            /\ run(7, "correct") => history[i].score = 100
            /\ run(20, "incorrect") => history[i].score = 0

\* Twenty incorrect verdicts after the score 100: the score is 0 now and was
\* 5 one verdict before.
C24_DownFromHundred ==
    /\ Len(history) >= 21
    /\ history[Len(history) - 20].score = 100
    /\ \A j \in (Len(history) - 19)..Len(history) :
          history[j].verdict = "incorrect"
    /\ history[Len(history) - 1].score = 5
    /\ score = 0

\* C25: say() adds an item to the queue only when the engine is not muted
\* and the text is not empty; set_muted(True) leaves the queue empty; an
\* item that a thread has taken while the engine was muted is not spoken;
\* and no thread begins to speak while the engine is muted.
C25_MutedIsSilent ==
    [][/\ (TtsSay /\ tts_engine'._queue # tts_engine._queue) =>
              /\ ~tts_engine._muted
              /\ call'.text # <<>>
       /\ TtsClear => tts_engine'._queue = <<>>
       /\ \A t \in 1..MaxThreads :
              (/\ tts_engine.threads[t].pc = "say"
               /\ tts_engine'.threads[t].pc = "speaking")
              => /\ ~tts_engine.threads[t].taken_muted
                 /\ ~tts_engine._muted]_vars

C27_SingleWorker ==
    Cardinality(in_loop(tts_engine)) <= 1

\* C28: no capture thread is inside cap.read() on a webcam that stop() has
\* released.
C28_NoReadAfterRelease ==
    \A d \in 1..MaxCaptures :
        emotion_bg_engine.capture[d].pc = "reading" =>
            emotion_bg_engine.devices[emotion_bg_engine.capture[d].dev]
                # "released"

\* C29: get_latest_emotion() returns the latest emotion, which is neutral
\* until an analysis has stored one; only an analysis that has returned a
\* result or has found no face changes it, to the dominant emotion or to
\* no_face; the latest emotion and the latest frames are read and written
\* by the holder of the lock only, and with the lock free the RGB frame is
\* the BGR frame converted.
C29_LatestEmotion ==
    /\ [](emotion_bg_engine._lock = "free" =>
              emotion_bg_engine._latest_frame_rgb
                  = cvtColor(emotion_bg_engine._latest_frame_bgr))
    /\ [](~emotion_bg_engine.analyzed =>
              emotion_bg_engine._latest_emotion = "neutral")
    /\ [][/\ (call' # call /\ call'.op = "get_latest_emotion") =>
                 /\ emotion_bg_engine._lock = "free"
                 /\ call'.ret = emotion_bg_engine._latest_emotion
          /\ (call' # call /\ call'.op = "get_annotated_frame_bgr") =>
                 /\ emotion_bg_engine._lock = "free"
                 /\ call'.ret = <<emotion_bg_engine._latest_frame_bgr,
                                  emotion_bg_engine._latest_emotion>>
          /\ emotion_bg_engine'._latest_emotion
                 # emotion_bg_engine._latest_emotion =>
                 /\ emotion_bg_engine._lock = "free"
                 /\ \E d \in 1..MaxCaptures :
                       LET o == emotion_bg_engine.analyze[d].outcome
                       IN  /\ emotion_bg_engine.analyze[d].pc = "store"
                           /\ emotion_bg_engine'.analyze[d].pc = "while"
                           /\ \/ /\ o.exc = "none"
                                 /\ o.has_dominant
                                 /\ emotion_bg_engine'._latest_emotion
                                        = o.dominant_emotion
                              \/ /\ o.exc = "ValueError"
                                 /\ ~o.detected
                                 /\ emotion_bg_engine'._latest_emotion
                                        = "no_face"
          /\ (\/ emotion_bg_engine'._latest_frame_bgr
                     # emotion_bg_engine._latest_frame_bgr
              \/ emotion_bg_engine'._latest_frame_rgb
                     # emotion_bg_engine._latest_frame_rgb) =>
                 \/ /\ emotion_bg_engine._lock = "free"
                    /\ emotion_bg_engine'._lock = "capture"
                 \/ emotion_bg_engine._lock = "capture"]_vars

\* get_latest_emotion() has returned no_face, stored after another emotion,
\* while a new frame is half written.
C29_NoFaceAfterHappy ==
    /\ call.op = "get_latest_emotion"
    /\ call.ret = "no_face"
    /\ emotion_bg_engine._latest_emotion = "no_face"
    /\ emotion_bg_engine._lock = "capture"
    /\ emotion_bg_engine._latest_frame_rgb
           # cvtColor(emotion_bg_engine._latest_frame_bgr)
    /\ emotion_bg_engine._latest_frame_rgb # NoFrame
=============================================================================
